---- MODULE Spec2Model ----
(***************************************************************************)
(* A model of the PyPic Editor image-quality analysis engine (analysis/*.py *)
(* and utils.py) and of the part of the application (main.py) that runs it. *)
(*                                                                         *)
(* Rasters are small RGB images with pixels drawn from a palette.  Real    *)
(* numbers are kept exact: a mean, a variance or a ratio is a pair of      *)
(* integers (numerator over a stated denominator); a square root is taken  *)
(* in fixed point (unit 1/FP), which stands for the float32 rounding of    *)
(* numpy; a logarithm is kept as its argument.                             *)
(***************************************************************************)
EXTENDS Integers, Sequences, FiniteSets, TLC

\* ------------------------------------------------------------------ bounds
MaxW == 2
MaxH == 2
MaxPixels == 4
MaxRep == 3
MaxThreads == 1
MaxRuns == 2
MaxOps == 3
MaxCalls == 3
MaxDelta == 1
MaxSide == 17
MaxNoiseSide == 3
MaxSkewSide == 4
MaxHistPixels == 2
PointerStep == 20
MaxPointer == 3
\* The unit of a fixed-point square root is 1/FP.
FP == 16

\* ------------------------------------------------------------- rasters
Black == <<0, 0, 0>>
Red   == <<255, 0, 0>>
Blue  == <<0, 0, 255>>
Palette == {Black, Red, Blue}

Shapes == {s \in (1..MaxW) \X (1..MaxH) : s[1] * s[2] <= MaxPixels}

\* An RGB raster: width, height and the pixels in row-major order.
Rasters == UNION {[w : {s[1]}, h : {s[2]}, px : [1..(s[1] * s[2]) -> Palette]] : s \in Shapes}

\* ----------------------------------------------------------- arithmetic
Abs(x) == IF x < 0 THEN -x ELSE x

Max2(a, b) == IF a >= b THEN a ELSE b

Min2(a, b) == IF a <= b THEN a ELSE b

SeqSum(s) == LET f[i \in 0..Len(s)] == IF i = 0 THEN 0 ELSE f[i - 1] + s[i] IN f[Len(s)]

SeqMax(s) == CHOOSE m \in {s[i] : i \in 1..Len(s)} : \A i \in 1..Len(s) : s[i] <= m

SeqMin(s) == CHOOSE m \in {s[i] : i \in 1..Len(s)} : \A i \in 1..Len(s) : s[i] >= m

RECURSIVE Gcd(_, _)
Gcd(a, b) == IF b = 0 THEN a ELSE Gcd(b, a % b)

\* a * b = c * d for naturals, decided without forming the products.
MulEq(a, b, c, d) ==
    IF a = 0 \/ b = 0 THEN c = 0 \/ d = 0
    ELSE IF c = 0 \/ d = 0 THEN FALSE
    ELSE LET g == Gcd(a, c)
             a1 == a \div g
             c1 == c \div g
         IN  b % c1 = 0 /\ d % a1 = 0 /\ b \div c1 = d \div a1

\* floor(sqrt(x)) by bisection: lo * lo <= x < hi * hi throughout.
RECURSIVE Bisect(_, _, _)
Bisect(x, lo, hi) ==
    IF hi - lo <= 1 THEN lo
    ELSE LET mid == (lo + hi) \div 2
         IN  IF mid * mid <= x THEN Bisect(x, mid, hi) ELSE Bisect(x, lo, mid)

ISqrt(x) == Bisect(x, 0, 46340)

\* np.sqrt of an integer, in units of 1/FP.
SqrtFP(x) == ISqrt(x * FP * FP)

\* ------------------------------------------------------------- rasters
NumPixels(img) == img.w * img.h

Size(img) == <<img.w, img.h>>

\* The pixel of column x, row y (both from 0).
Pixel(img, x, y) == img.px[y * img.w + x + 1]

\* img.convert('L'): the ITU-R 601-2 luma transform of PIL, rounded as PIL does.
Luma(p) == (p[1] * 19595 + p[2] * 38470 + p[3] * 7471 + 32768) \div 65536

\* np.array(img.convert('L'), dtype=np.float32): a field of shape (h, w).
GrayArray(img) == [w |-> img.w, h |-> img.h, a |-> [i \in 1..NumPixels(img) |-> Luma(img.px[i])]]

\* np.array(img, dtype=np.float32).flatten(): the 3 * w * h channel values.
ChannelValues(img) == [k \in 1..(3 * NumPixels(img)) |-> img.px[((k - 1) \div 3) + 1][((k - 1) % 3) + 1]]

\* The element of row y, column x of a field.
At(f, x, y) == f.a[y * f.w + x + 1]

\* np.pad(arr, ((1, 1), (1, 1)), mode='edge') read at padded position (x, y).
PadEdge(f, x, y) == At(f, Min2(Max2(x - 1, 0), f.w - 1), Min2(Max2(y - 1, 0), f.h - 1))

\* The index np.pad(mode='reflect') reads for padded index i of an axis of
\* length n (an axis of length 1 repeats its only value).
ReflectIndex(i, n) ==
    IF n = 1 THEN 0
    ELSE IF i = 0 THEN 1
    ELSE IF i = n + 1 THEN n - 2
    ELSE i - 1

PadReflect(f, x, y) == At(f, ReflectIndex(x, f.w), ReflectIndex(y, f.h))

\* numpy broadcasting of two (h, w) shapes.
BroadcastOK(a, b) ==
    /\ (a.w = b.w \/ a.w = 1 \/ b.w = 1)
    /\ (a.h = b.h \/ a.h = 1 \/ b.h = 1)

BroadcastW(a, b) == Max2(a.w, b.w)

BroadcastH(a, b) == Max2(a.h, b.h)

\* The element of f that broadcasting pairs with position (x, y) of the result.
BAt(f, x, y) == At(f, IF f.w = 1 THEN 0 ELSE x, IF f.h = 1 THEN 0 ELSE y)

BPixel(img, x, y) == Pixel(img, IF img.w = 1 THEN 0 ELSE x, IF img.h = 1 THEN 0 ELSE y)

\* img.resize(size): a raster of the requested size.  The resampling filter
\* belongs to the imaging library; the samples are taken here at the nearest
\* source pixel, and nothing stated below depends on their values.
Resize(img, w, h) ==
    [w |-> w, h |-> h,
     px |-> [i \in 1..(w * h) |->
               Pixel(img, (((i - 1) % w) * img.w) \div w, (((i - 1) \div w) * img.h) \div h)]]

\* ------------------------------------------------- values an analyzer returns
\* float('inf')
Inf == [kind |-> "inf"]

\* An exception raised by the computation.
Raised(what) == [kind |-> "error", what |-> what]

\* The number num / den.
Ratio(num, den) == [kind |-> "ratio", num |-> num, den |-> den]

IsError(v) == v.kind = "error"

IsZero(v) == v.kind = "ratio" /\ v.num = 0 /\ v.den # 0

\* 20 * math.log10(num / math.sqrt(den2)): Python raises ZeroDivisionError on a
\* zero divisor and ValueError("math domain error") on the logarithm of a number <= 0.
Log10Quot(num, den2) ==
    IF den2 = 0 THEN Raised("ZeroDivisionError")
    ELSE IF num <= 0 THEN Raised("math domain error")
    ELSE [kind |-> "dB", num |-> num, den2 |-> den2]

\* --------------------------------------------------- analysis/metrics.py
\* np.mean((arr1 - arr2) ** 2) over the (h, w, 3) arrays of the two images.
calculate_mse(img1, img2) ==
    IF ~BroadcastOK(img1, img2) THEN Raised("ValueError")
    ELSE LET W == BroadcastW(img1, img2)
             H == BroadcastH(img1, img2)
             sq == [i \in 1..(W * H) |->
                      LET p == BPixel(img1, (i - 1) % W, (i - 1) \div W)
                          q == BPixel(img2, (i - 1) % W, (i - 1) \div W)
                      IN  (p[1] - q[1]) * (p[1] - q[1]) + (p[2] - q[2]) * (p[2] - q[2])
                            + (p[3] - q[3]) * (p[3] - q[3])]
         IN  Ratio(SeqSum(sq), 3 * W * H)

\* 20 * log10(255 / sqrt(mse)) = 20 * log10(255 * sqrt(den) / sqrt(num)); kept
\* as the pair (255, num / den) scaled to integers: num = 255 * den, den2 = num * den.
calculate_psnr(img1, img2) ==
    LET mse == calculate_mse(img1, img2)
    IN  IF IsError(mse) THEN mse
        ELSE IF mse.num = 0 THEN Inf
        ELSE Log10Quot(255 * mse.den, mse.num * mse.den)

\* calculate_snr without the test of a zero standard deviation.
calculate_snr_unguarded(img) ==
    LET v == ChannelValues(img)
        M == Len(v)
        S == SeqSum(v)
        Q == SeqSum([k \in 1..M |-> v[k] * v[k]])
    IN  Log10Quot(S, M * Q - S * S)

\* mean = S / M and std = sqrt(M * Q - S * S) / M over the M = 3 * w * h channel
\* values, so mean / std = S / sqrt(M * Q - S * S).
calculate_snr(img) ==
    LET v == ChannelValues(img)
        M == Len(v)
        S == SeqSum(v)
        Q == SeqSum([k \in 1..M |-> v[k] * v[k]])
        var == M * Q - S * S
    IN  IF var = 0 THEN Inf ELSE Log10Quot(S, var)

\* The Shannon entropy of the grayscale histogram, kept as the histogram: the
\* count of every gray level that occurs, and the number of pixels.
calculate_entropy(img) ==
    LET g == GrayArray(img).a
        levels == {g[i] : i \in 1..Len(g)}
    IN  [kind |-> "entropy", total |-> Len(g),
         counts |-> [l \in levels |-> Cardinality({i \in 1..Len(g) : g[i] = l})]]

\* calculate_ssim with sigma12 = mean(i1 * i2), the means not subtracted.
calculate_ssim_uncentered(img1, img2) ==
    LET i1 == GrayArray(img1)
        i2 == GrayArray(img2)
    IN  IF ~BroadcastOK(i1, i2) THEN Raised("ValueError")
        ELSE LET W == BroadcastW(i1, i2)
                 H == BroadcastH(i1, i2)
                 N == W * H
                 b1 == [i \in 1..N |-> BAt(i1, (i - 1) % W, (i - 1) \div W)]
                 b2 == [i \in 1..N |-> BAt(i2, (i - 1) % W, (i - 1) \div W)]
                 S1 == SeqSum(b1)
                 S2 == SeqSum(b2)
                 Q1 == SeqSum([i \in 1..N |-> b1[i] * b1[i]])
                 Q2 == SeqSum([i \in 1..N |-> b2[i] * b2[i]])
                 P == SeqSum([i \in 1..N |-> b1[i] * b2[i]])
             IN  [kind |-> "ssim",
                  a |-> 800 * S1 * S2 + 2601 * N * N,
                  b |-> 800 * (N * P) + 23409 * N * N,
                  c |-> 400 * (S1 * S1 + S2 * S2) + 2601 * N * N,
                  d |-> 400 * ((N * Q1 - S1 * S1) + (N * Q2 - S2 * S2)) + 23409 * N * N]

\* The global SSIM of the two grayscale fields.  With N pixels, sums S1, S2,
\* sums of squares Q1, Q2 and sum of products P, and c1 = 2601/400,
\* c2 = 23409/400, every factor is an integer over 400 * N * N:
\*   2 mu1 mu2 + c1          = A / (400 N^2)
\*   2 sigma12 + c2          = B / (400 N^2)
\*   mu1^2 + mu2^2 + c1      = C / (400 N^2)
\*   sigma1^2 + sigma2^2 + c2 = D / (400 N^2)
\* and the result is (A * B) / (C * D).
calculate_ssim(img1, img2) ==
    LET i1 == GrayArray(img1)
        i2 == GrayArray(img2)
    IN  IF ~BroadcastOK(i1, i2) THEN Raised("ValueError")
        ELSE LET W == BroadcastW(i1, i2)
                 H == BroadcastH(i1, i2)
                 N == W * H
                 \* the operands as broadcasting pairs them (the mean and the
                 \* variance of a broadcast operand are those of the operand)
                 b1 == [i \in 1..N |-> BAt(i1, (i - 1) % W, (i - 1) \div W)]
                 b2 == [i \in 1..N |-> BAt(i2, (i - 1) % W, (i - 1) \div W)]
                 S1 == SeqSum(b1)
                 S2 == SeqSum(b2)
                 Q1 == SeqSum([i \in 1..N |-> b1[i] * b1[i]])
                 Q2 == SeqSum([i \in 1..N |-> b2[i] * b2[i]])
                 P == SeqSum([i \in 1..N |-> b1[i] * b2[i]])
             IN  [kind |-> "ssim",
                  a |-> 800 * S1 * S2 + 2601 * N * N,
                  b |-> 800 * (N * P - S1 * S2) + 23409 * N * N,
                  c |-> 400 * (S1 * S1 + S2 * S2) + 2601 * N * N,
                  d |-> 400 * ((N * Q1 - S1 * S1) + (N * Q2 - S2 * S2)) + 23409 * N * N]

\* The ssim value is exactly 1.0.
SsimIsOne(v) == v.kind = "ssim" /\ v.b > 0 /\ MulEq(v.a, v.b, v.c, v.d)

Metrics(img_orig, img_edited, img_edited_resized) ==
    LET mse == calculate_mse(img_orig, img_edited_resized)
        psnr == calculate_psnr(img_orig, img_edited_resized)
        ssim == calculate_ssim(img_orig, img_edited_resized)
        snr_orig == calculate_snr(img_orig)
        snr_edit == calculate_snr(img_edited)
    IN  IF IsError(mse) THEN mse
        ELSE IF IsError(psnr) THEN psnr
        ELSE IF IsError(ssim) THEN ssim
        ELSE IF IsError(snr_orig) THEN snr_orig
        ELSE IF IsError(snr_edit) THEN snr_edit
        ELSE [kind |-> "metrics",
              compared |-> <<Size(img_orig), Size(img_edited_resized)>>,
              mse |-> mse, psnr |-> psnr, ssim |-> ssim,
              snr_orig |-> snr_orig, snr_edit |-> snr_edit,
              entropy_orig |-> calculate_entropy(img_orig),
              entropy_edit |-> calculate_entropy(img_edited)]

\* analyze_metrics comparing the edited image at the size given.
analyze_metrics_no_resize(img_orig, img_edited) == Metrics(img_orig, img_edited, img_edited)

\* The result carries, as `compared`, the sizes of the two images that mse,
\* psnr and ssim were computed over.
analyze_metrics(img_orig, img_edited) ==
    LET img_edited_resized ==
            IF Size(img_orig) # Size(img_edited)
            THEN Resize(img_edited, img_orig.w, img_orig.h)
            ELSE img_edited
    IN  Metrics(img_orig, img_edited, img_edited_resized)

\* ------------------------------------------------------------- utils.py
\* norm.astype(np.uint8) of the ratio num / den: truncation toward zero, then
\* the low 8 bits.
AsUint8(num, den) ==
    (IF num >= 0 THEN num \div den ELSE -((-num) \div den)) % 256

\* normalize_array with norm = arr / (arr_max - arr_min) * 255, the minimum
\* not subtracted.
normalize_array_no_min(arr) ==
    LET arr_min == SeqMin(arr.a)
        arr_max == SeqMax(arr.a)
    IN  IF arr_max - arr_min = 0
        THEN [w |-> arr.w, h |-> arr.h, a |-> [i \in 1..Len(arr.a) |-> 0]]
        ELSE [w |-> arr.w, h |-> arr.h,
              a |-> [i \in 1..Len(arr.a) |-> AsUint8(arr.a[i] * 255, arr_max - arr_min)]]

\* norm = (arr - arr_min) / (arr_max - arr_min) * 255, cast to uint8; a field
\* whose range is 0 gives zeros.
normalize_array(arr) ==
    LET arr_min == SeqMin(arr.a)
        arr_max == SeqMax(arr.a)
    IN  IF arr_max - arr_min = 0
        THEN [w |-> arr.w, h |-> arr.h, a |-> [i \in 1..Len(arr.a) |-> 0]]
        ELSE [w |-> arr.w, h |-> arr.h,
              a |-> [i \in 1..Len(arr.a) |->
                       AsUint8((arr.a[i] - arr_min) * 255, arr_max - arr_min)]]

\* ----------------------------------------------------- analysis/edges.py
\* The Sobel responses at pixel (x, y): `padded` is read at (x + dx, y + dy),
\* dx, dy in 0..2.
GradX(f, x, y) ==
    (PadEdge(f, x + 2, y) + 2 * PadEdge(f, x + 2, y + 1) + PadEdge(f, x + 2, y + 2))
      - (PadEdge(f, x, y) + 2 * PadEdge(f, x, y + 1) + PadEdge(f, x, y + 2))

GradY(f, x, y) ==
    (PadEdge(f, x, y + 2) + 2 * PadEdge(f, x + 1, y + 2) + PadEdge(f, x + 2, y + 2))
      - (PadEdge(f, x, y) + 2 * PadEdge(f, x + 1, y) + PadEdge(f, x + 2, y))

\* np.sqrt(grad_x**2 + grad_y**2), in units of 1/FP.
SobelMagnitude(img) ==
    LET f == GrayArray(img)
    IN  [w |-> f.w, h |-> f.h,
         a |-> [i \in 1..Len(f.a) |->
                  LET x == (i - 1) % f.w
                      y == (i - 1) \div f.w
                      gx == GradX(f, x, y)
                      gy == GradY(f, x, y)
                  IN  SqrtFP(gx * gx + gy * gy)]]

\* (edge_img, density, mag_norm): the image is the normalized field; the
\* density is the fraction of its pixels above 80.
sobel_edge_detection(img) ==
    LET magnitude == SobelMagnitude(img)
        mag_norm == normalize_array(magnitude)
        threshold == 80
    IN  [edge_img |-> mag_norm,
         density |-> Ratio(Cardinality({i \in 1..Len(mag_norm.a) : mag_norm.a[i] > threshold}),
                           Len(mag_norm.a)),
         mag_norm |-> mag_norm]

\* The correlation num / sqrt(v1 * v2); 0 / 0 is numpy's nan.
Corr(num, v1, v2) == [kind |-> "corr", num |-> num, v1 |-> v1, v2 |-> v2]

CorrIsNaN(v) == v.kind = "corr" /\ (v.v1 = 0 \/ v.v2 = 0)

CorrIsZero(v) == v.kind = "corr" /\ v.num = 0 /\ v.v1 > 0 /\ v.v2 > 0

CorrIsOne(v) == v.kind = "corr" /\ v.num > 0 /\ MulEq(v.num, v.num, v.v1, v.v2)

\* n * n * var(f) of a flattened field.
VarNum(f) ==
    LET n == Len(f)
        S == SeqSum(f)
    IN  n * SeqSum([i \in 1..n |-> f[i] * f[i]]) - S * S

\* np.corrcoef(f1, f2)[0, 1]; arrays of different lengths raise ValueError.
CorrCoef(f1, f2) ==
    IF Len(f1) # Len(f2) THEN Raised("ValueError")
    ELSE LET n == Len(f1)
         IN  Corr(n * SeqSum([i \in 1..n |-> f1[i] * f2[i]]) - SeqSum(f1) * SeqSum(f2),
                  VarNum(f1), VarNum(f2))

\* calculate_edge_preservation without the test of a zero standard deviation.
calculate_edge_preservation_unguarded(orig_mag, edit_mag) == CorrCoef(orig_mag.a, edit_mag.a)

\* calculate_edge_preservation testing the original's standard deviation only.
calculate_edge_preservation_orig_only(orig_mag, edit_mag) ==
    IF VarNum(orig_mag.a) = 0 THEN Corr(0, 1, 1) ELSE CorrCoef(orig_mag.a, edit_mag.a)

calculate_edge_preservation(orig_mag, edit_mag) ==
    LET f1 == orig_mag.a
        f2 == edit_mag.a
    IN  IF VarNum(f1) = 0 \/ VarNum(f2) = 0 THEN Corr(0, 1, 1)
        ELSE CorrCoef(f1, f2)

\* EdgeDiffPixel with new edges in the red channel and lost edges in the green.
EdgeDiffPixel_swapped(diff) ==
    LET diff_threshold == 20
    IN  <<IF diff > diff_threshold THEN Min2(Max2(diff, 0), 255) ELSE 0,
          IF diff < -diff_threshold THEN Min2(Max2(-diff, 0), 255) ELSE 0,
          0>>

\* One pixel of diff_map for diff = edited magnitude - original magnitude.
EdgeDiffPixel(diff) ==
    LET diff_threshold == 20
    IN  <<IF diff < -diff_threshold THEN Min2(Max2(-diff, 0), 255) ELSE 0,
          IF diff > diff_threshold THEN Min2(Max2(diff, 0), 255) ELSE 0,
          0>>

analyze_edges(orig, edited) ==
    LET o == sobel_edge_detection(orig)
        e == sobel_edge_detection(edited)
        orig_mag == o.mag_norm
        edited_mag == e.mag_norm
        W == BroadcastW(edited_mag, orig_mag)
        H == BroadcastH(edited_mag, orig_mag)
        preservation_score == calculate_edge_preservation(orig_mag, edited_mag)
    IN  IF ~BroadcastOK(edited_mag, orig_mag) THEN Raised("ValueError")
        \* diff_map has the original's shape; a mask of another shape cannot index it
        ELSE IF W # orig_mag.w \/ H # orig_mag.h THEN Raised("IndexError")
        ELSE IF IsError(preservation_score) THEN preservation_score
        ELSE [kind |-> "edges",
              orig_edge |-> o.edge_img,
              edited_edge |-> e.edge_img,
              difference_map |->
                  [w |-> orig_mag.w, h |-> orig_mag.h,
                   px |-> [i \in 1..(W * H) |->
                             EdgeDiffPixel(BAt(edited_mag, (i - 1) % W, (i - 1) \div W)
                                             - BAt(orig_mag, (i - 1) % W, (i - 1) \div W))]],
              density_original |-> o.density,
              density_edited |-> e.density,
              preservation_score |-> preservation_score]

\* The difference a - b of two ratios.
RatioDiff(a, b) == Ratio(a.num * b.den - b.num * a.den, a.den * b.den)

\* ----------------------------------------------------- analysis/noise.py
\* LocalVar with the border pixels repeated (mode='edge') instead of reflected.
LocalVar_edge_padded(img) ==
    LET f == GrayArray(img)
    IN  [w |-> f.w, h |-> f.h,
         a |-> [k \in 1..Len(f.a) |->
                  LET x == (k - 1) % f.w
                      y == (k - 1) \div f.w
                      nb == [n \in 1..9 |-> PadEdge(f, x + ((n - 1) % 3), y + ((n - 1) \div 3))]
                      S == SeqSum(nb)
                  IN  9 * SeqSum([n \in 1..9 |-> nb[n] * nb[n]]) - S * S]]

\* np.var of the 9 values of the 3x3 window of every pixel of the
\* reflect-padded field, in units of 1/81: 9 * sum of squares - square of the sum.
LocalVar(img) ==
    LET f == GrayArray(img)
    IN  [w |-> f.w, h |-> f.h,
         a |-> [k \in 1..Len(f.a) |->
                  LET x == (k - 1) % f.w
                      y == (k - 1) \div f.w
                      nb == [n \in 1..9 |-> PadReflect(f, x + ((n - 1) % 3), y + ((n - 1) \div 3))]
                      S == SeqSum(nb)
                  IN  9 * SeqSum([n \in 1..9 |-> nb[n] * nb[n]]) - S * S]]

\* (variance_map_image, heatmap_image, mean_variance, variance_array)
calculate_local_variance(img) ==
    LET local_var == LocalVar(img)
        var_norm == normalize_array(local_var)
    IN  [var_map |-> var_norm,
         heatmap |-> [w |-> img.w, h |-> img.h,
                      px |-> [i \in 1..Len(var_norm.a) |->
                                <<var_norm.a[i], var_norm.a[i], 255 - var_norm.a[i]>>]],
         mean_var |-> Ratio(SeqSum(local_var.a), 81 * Len(local_var.a)),
         local_var |-> local_var]

\* The response of [[1,-2,1],[-2,4,-2],[1,-2,1]] at pixel (x, y) of the
\* edge-padded field.
NoiseConv(f, x, y) ==
    (PadEdge(f, x, y) - 2 * PadEdge(f, x + 1, y) + PadEdge(f, x + 2, y))
      + (4 * PadEdge(f, x + 1, y + 1) - 2 * PadEdge(f, x, y + 1) - 2 * PadEdge(f, x + 2, y + 1))
      + (PadEdge(f, x, y + 2) - 2 * PadEdge(f, x + 1, y + 2) + PadEdge(f, x + 2, y + 2))

\* estimate_gaussian_noise without the early return for small images.
estimate_gaussian_noise_unguarded(img) ==
    LET f == GrayArray(img)
        N == Len(f.a)
    IN  [kind |-> "sigma",
         sq_num |-> VarNum([i \in 1..N |-> NoiseConv(f, (i - 1) % f.w, (i - 1) \div f.w)]),
         sq_den |-> 36 * N * N]

\* sigma = std(conv) / 6, kept as sigma squared = VarNum(conv) / (36 * N * N).
estimate_gaussian_noise(img) ==
    LET f == GrayArray(img)
        N == Len(f.a)
    IN  IF f.h < 3 \/ f.w < 3 THEN [kind |-> "sigma", sq_num |-> 0, sq_den |-> 1]
        ELSE [kind |-> "sigma",
              sq_num |-> VarNum([i \in 1..N |-> NoiseConv(f, (i - 1) % f.w, (i - 1) \div f.w)]),
              sq_den |-> 36 * N * N]

\* One pixel of the noise difference map; diff is in units of 1/81, the
\* threshold is 5.0.
NoiseDiffPixel(diff) ==
    <<IF diff < -(5 * 81) THEN 255 ELSE 0, IF diff > 5 * 81 THEN 255 ELSE 0, 0>>

\* analyze_noise reporting the edited score as the delta.
analyze_noise_delta_unsubtracted(orig, edited) ==
    LET o == calculate_local_variance(orig)
        e == calculate_local_variance(edited)
        orig_var_arr == o.local_var
        edited_var_arr == e.local_var
        W == BroadcastW(edited_var_arr, orig_var_arr)
        H == BroadcastH(edited_var_arr, orig_var_arr)
    IN  IF ~BroadcastOK(edited_var_arr, orig_var_arr) THEN Raised("ValueError")
        ELSE IF W # orig_var_arr.w \/ H # orig_var_arr.h THEN Raised("IndexError")
        ELSE [kind |-> "noise",
              original_noise_map |-> o.var_map,
              edited_noise_map |-> e.var_map,
              original_heatmap |-> o.heatmap,
              edited_heatmap |-> e.heatmap,
              difference_map |->
                  [w |-> orig_var_arr.w, h |-> orig_var_arr.h,
                   px |-> [i \in 1..(W * H) |->
                             NoiseDiffPixel(BAt(edited_var_arr, (i - 1) % W, (i - 1) \div W)
                                              - BAt(orig_var_arr, (i - 1) % W, (i - 1) \div W))]],
              noise_original |-> o.mean_var,
              noise_edited |-> e.mean_var,
              noise_delta |-> e.mean_var,
              gaussian_noise_orig |-> estimate_gaussian_noise(orig),
              gaussian_noise_edit |-> estimate_gaussian_noise(edited)]

analyze_noise(orig, edited) ==
    LET o == calculate_local_variance(orig)
        e == calculate_local_variance(edited)
        orig_var_arr == o.local_var
        edited_var_arr == e.local_var
        W == BroadcastW(edited_var_arr, orig_var_arr)
        H == BroadcastH(edited_var_arr, orig_var_arr)
    IN  IF ~BroadcastOK(edited_var_arr, orig_var_arr) THEN Raised("ValueError")
        ELSE IF W # orig_var_arr.w \/ H # orig_var_arr.h THEN Raised("IndexError")
        ELSE [kind |-> "noise",
              original_noise_map |-> o.var_map,
              edited_noise_map |-> e.var_map,
              original_heatmap |-> o.heatmap,
              edited_heatmap |-> e.heatmap,
              difference_map |->
                  [w |-> orig_var_arr.w, h |-> orig_var_arr.h,
                   px |-> [i \in 1..(W * H) |->
                             NoiseDiffPixel(BAt(edited_var_arr, (i - 1) % W, (i - 1) \div W)
                                              - BAt(orig_var_arr, (i - 1) % W, (i - 1) \div W))]],
              noise_original |-> o.mean_var,
              noise_edited |-> e.mean_var,
              noise_delta |-> RatioDiff(e.mean_var, o.mean_var),
              gaussian_noise_orig |-> estimate_gaussian_noise(orig),
              gaussian_noise_edit |-> estimate_gaussian_noise(edited)]

\* ------------------------------------------------- analysis/histogram.py
Bins == 0..255

\* np.histogram(arr[:, :, c], bins=256, range=(0, 256)): the count of bin b.
HistCount(img, c, b) == Cardinality({i \in 1..NumPixels(img) : img.px[i][c] = b})

\* The bins of channel c that hold at least one pixel.
Occupied(img, c) == {img.px[i][c] : i \in 1..NumPixels(img)}

RECURSIVE SetSum(_, _, _, _, _)
\* The sum over the bins of S of |hist_a - hist_b| in channel c.
SetSum(S, a, b, c, acc) ==
    IF S = {} THEN acc
    ELSE LET x == CHOOSE x \in S : TRUE
         IN  SetSum(S \ {x}, a, b, c, acc + Abs(HistCount(a, c, x) - HistCount(b, c, x)))

\* np.sum(np.abs(hist_orig - hist_edited)) over the 3 x 256 bins; a bin that is
\* empty in both images adds 0, so the sum runs over the occupied bins.
HistDiff(a, b) ==
    LET ch[c \in 0..3] ==
            IF c = 0 THEN 0
            ELSE ch[c - 1] + SetSum((Occupied(a, c) \cup Occupied(b, c)) \cap Bins, a, b, c, 0)
    IN  ch[3]

\* (hist_combined, brightness, contrast): the histogram is kept on its occupied
\* bins; the brightness is the mean and the contrast the standard deviation
\* (in units of 1/FP) of the 3 * w * h channel values.
calculate_histogram_stats(img) ==
    LET v == ChannelValues(img)
        M == Len(v)
    IN  [hist |-> [c \in 1..3 |-> [b \in Occupied(img, c) |-> HistCount(img, c, b)]],
         brightness |-> Ratio(SeqSum(v), M),
         contrast |-> Ratio(SqrtFP(VarNum(v)), M * FP)]

\* The score dividing by the pixel count, not by 3 times the pixel count.
histogram_delta_score_per_pixel(orig, edited) ==
    LET total_pixels == orig.w * orig.h
        hist_diff == HistDiff(orig, edited)
    IN  Ratio(hist_diff * 100, total_pixels)

\* hist_delta_score = (hist_diff / (total_pixels * 3)) * 100
histogram_delta_score(orig, edited) ==
    LET total_pixels == orig.w * orig.h
        hist_diff == HistDiff(orig, edited)
    IN  Ratio(hist_diff * 100, total_pixels * 3)

analyze_histogram(orig, edited) ==
    LET o == calculate_histogram_stats(orig)
        e == calculate_histogram_stats(edited)
    IN  [kind |-> "histogram",
         hist_original |-> o.hist,
         hist_edited |-> e.hist,
         brightness_delta |-> RatioDiff(e.brightness, o.brightness),
         contrast_delta |-> RatioDiff(e.contrast, o.contrast),
         histogram_delta_score |-> histogram_delta_score(orig, edited)]

\* hist_combined of calculate_histogram_stats with all of its bins: the
\* counts of the three channels.
FullHist(img) == [c \in 1..3 |-> [b \in Bins |-> HistCount(img, c, b)]]

\* The sum of hist over the bins start .. stop - 1.
RECURSIVE BinSum(_, _, _)
BinSum(hist, start, stop) ==
    IF start >= stop THEN 0 ELSE hist[start] + BinSum(hist, start + 1, stop)

\* smooth_histogram in units of 1/6 (the slices of window 3 hold 2 or 3 bins).
smooth_histogram(hist, window) ==
    IF window < 2 THEN [i \in Bins |-> 6 * hist[i]]
    ELSE [i \in Bins |->
            LET start == Max2(0, i - (window \div 2))
                end == Min2(256, i + (window \div 2) + 1)
            IN  (6 * BinSum(hist, start, end)) \div (end - start)]

\* The largest value of a 3 x 256 field.
FieldMax(field) ==
    LET m[c \in 0..3] ==
            IF c = 0 THEN 0
            ELSE Max2(m[c - 1], SeqMax([k \in 1..256 |-> field[c][k - 1]]))
    IN  m[3]

\* y_max before the padding, taken from the original's peak alone.
HistPeak_orig_only(hist_orig_smooth, hist_edited_smooth, hist_diff) ==
    FieldMax(hist_orig_smooth)

\* max(np.max(hist_orig_smooth), np.max(hist_edited_smooth), np.max(np.abs(hist_diff)))
HistPeak(hist_orig_smooth, hist_edited_smooth, hist_diff) ==
    Max2(Max2(FieldMax(hist_orig_smooth), FieldMax(hist_edited_smooth)),
         FieldMax([c \in 1..3 |-> [b \in Bins |-> Abs(hist_diff[c][b])]]))

\* int(q) of the quotient num / den, den > 0: towards zero.
IntQuot(num, den) == IF num >= 0 THEN num \div den ELSE -((-num) \div den)

\* The points create_plot joins for each channel; hist_data and peak are in
\* units of 1/6 and y_max is 1.1 * peak, so val / y_max is
\* 10 * val / (11 * peak).  The quotients are those of the float arithmetic
\* while an image has fewer than 11 pixels.
create_plot(hist_data, peak, is_difference) ==
    LET width == 340
        height == 100
        margin_left == 40
        margin_right == 10
        margin_top == 25
        margin_bottom == 25
        plot_width == width - margin_left - margin_right
        plot_height == height - margin_top - margin_bottom
    IN  IF peak = 0 THEN Raised("ValueError")
        ELSE [ch \in 1..3 |->
                [x \in Bins |->
                   <<margin_left + ((x * plot_width) \div 255),
                     IF is_difference
                     THEN (margin_top + (plot_height \div 2))
                            - IntQuot(hist_data[ch][x] * 10 * (plot_height \div 2), 11 * peak)
                     ELSE (height - margin_bottom)
                            - IntQuot(hist_data[ch][x] * 10 * plot_height, 11 * peak)>>]]

\* (plot_orig, plot_edit, plot_diff) as the points drawn, with the y_max they
\* share.
PlotsOf(hist_orig_smooth, hist_edited_smooth, hist_diff, peak) ==
    [y_max |-> Ratio(11 * peak, 60),
     plot_orig |-> create_plot(hist_orig_smooth, peak, FALSE),
     plot_edit |-> create_plot(hist_edited_smooth, peak, FALSE),
     plot_diff |-> create_plot(hist_diff, peak, TRUE)]

SmoothedDiff(hist_orig_smooth, hist_edited_smooth) ==
    [c \in 1..3 |-> [b \in Bins |-> hist_edited_smooth[c][b] - hist_orig_smooth[c][b]]]

SmoothedPlots(hist_orig_smooth, hist_edited_smooth) ==
    PlotsOf(hist_orig_smooth, hist_edited_smooth,
            SmoothedDiff(hist_orig_smooth, hist_edited_smooth),
            HistPeak(hist_orig_smooth, hist_edited_smooth,
                     SmoothedDiff(hist_orig_smooth, hist_edited_smooth)))

plot_aligned_histograms_pil(hist_orig, hist_edited) ==
    SmoothedPlots([ch \in 1..3 |-> smooth_histogram(hist_orig[ch], 3)],
                  [ch \in 1..3 |-> smooth_histogram(hist_edited[ch], 3)])

\* ------------------------------------------------- analysis/sharpness.py
\* The variance of the Laplacian response over the edge-padded field.
Laplacian(img) ==
    LET f == GrayArray(img)
    IN  [w |-> f.w, h |-> f.h,
         a |-> [i \in 1..Len(f.a) |->
                  LET x == (i - 1) % f.w
                      y == (i - 1) \div f.w
                  IN  PadEdge(f, x + 1, y) + PadEdge(f, x + 1, y + 2) + PadEdge(f, x, y + 1)
                        + PadEdge(f, x + 2, y + 1) - 4 * PadEdge(f, x + 1, y + 1)]]

calculate_sharpness(img) ==
    LET laplacian == Laplacian(img).a
    IN  Ratio(VarNum(laplacian), Len(laplacian) * Len(laplacian))

analyze_sharpness(orig, edited) ==
    LET sharp_orig == calculate_sharpness(orig)
        sharp_edited == calculate_sharpness(edited)
    IN  [kind |-> "sharpness",
         sharpness_original |-> sharp_orig,
         sharpness_edited |-> sharp_edited,
         sharpness_delta |-> RatioDiff(sharp_edited, sharp_orig)]

\* ------------------------------------------------- analysis/artifacts.py
\* A bound of a[start:stop:step] on an axis of length n: a negative bound
\* counts from the end, and both are clamped to 0..n.
SliceBound(i, n) == IF i < 0 THEN Max2(i + n, 0) ELSE Min2(i, n)

\* The indices (from 0) that a[start:stop:step] selects, step > 0.
SliceIndices(start, stop, step, n) ==
    LET lo == SliceBound(start, n)
        hi == SliceBound(stop, n)
        len == IF hi > lo THEN (hi - lo + step - 1) \div step ELSE 0
    IN  [k \in 1..len |-> lo + (k - 1) * step]

\* numpy's nan
NaN == [kind |-> "nan"]

\* np.mean(np.abs(a - b)) where a and b hold the columns (axis "w") or the
\* rows (axis "h") of the field f selected by sel1 and sel2: the two arrays
\* are broadcast against each other, and the mean of no element is nan.
MeanAbsDiff(f, axis, sel1, sel2) ==
    LET l1 == Len(sel1)
        l2 == Len(sel2)
        m == IF axis = "w" THEN f.h ELSE f.w
        L == IF l1 = 1 THEN l2 ELSE l1
        V(i, j) == IF axis = "w" THEN At(f, i, j) ELSE At(f, j, i)
        total == SeqSum([k \in 1..(L * m) |->
                    LET j == IF l1 = 1 THEN 1 ELSE ((k - 1) % L) + 1
                        jj == IF l2 = 1 THEN 1 ELSE ((k - 1) % L) + 1
                        r == (k - 1) \div L
                    IN  Abs(V(sel1[j], r) - V(sel2[jj], r))])
    IN  IF l1 # l2 /\ l1 # 1 /\ l2 # 1 THEN Raised("ValueError")
        ELSE IF L * m = 0 THEN NaN
        ELSE Ratio(total, L * m)

\* a - b and a + b for floats that may be nan, or the exception that came first.
FloatDiff(a, b) ==
    IF IsError(a) THEN a
    ELSE IF IsError(b) THEN b
    ELSE IF a = NaN \/ b = NaN THEN NaN
    ELSE RatioDiff(a, b)

FloatSum(a, b) ==
    IF IsError(a) THEN a
    ELSE IF IsError(b) THEN b
    ELSE IF a = NaN \/ b = NaN THEN NaN
    ELSE Ratio(a.num * b.den + b.num * a.den, a.den * b.den)

\* max(x, 0): the arguments in the other order, so that nan is returned.
Max0_nan_first(x) ==
    IF IsError(x) THEN x
    ELSE IF x = NaN THEN NaN
    ELSE IF x.num < 0 THEN Ratio(0, 1) ELSE x

\* max(0, x): Python keeps 0 unless x > 0, and nan > 0 is false.
Max0(x) ==
    IF IsError(x) THEN x
    ELSE IF x # NaN /\ x.num > 0 THEN x
    ELSE Ratio(0, 1)

\* The horizontal and the vertical excess: the mean step across the 8-pixel
\* block boundaries less the mean step inside the blocks.
BlockExcess(arr, axis) ==
    LET n == IF axis = "w" THEN arr.w ELSE arr.h
        diff == MeanAbsDiff(arr, axis, SliceIndices(7, n - 1, 8, n), SliceIndices(8, n, 8, n))
        diff_non == MeanAbsDiff(arr, axis, SliceIndices(3, n - 5, 8, n),
                                SliceIndices(4, n - 4, 8, n))
    IN  FloatDiff(diff, diff_non)

detect_compression_artifacts(img) ==
    LET arr == GrayArray(img)
        score_h == BlockExcess(arr, "w")
        score_v == BlockExcess(arr, "h")
    IN  Max0(FloatSum(score_h, score_v))

detect_oversmoothing(img) == calculate_sharpness(img)

\* --------------------------------------------------- analysis/report.py
\* A report is the sequence of its lines.  A line with a formatted number is
\* kept as its label and the number; the verdict line as its verdict.
None == [kind |-> "None"]

\* A line of plain text.
Text(s) == [text |-> s]

Line(label, value) == [label |-> label, value |-> value]

\* quality_change with the two tests in the other order.
quality_change_noise_last(noise_delta, sharpness_delta) ==
    LET q1 == "improved"
        q2 == IF sharpness_delta < 0 THEN "softer/blurred" ELSE q1
    IN  IF noise_delta > 0 THEN "degraded (more noise)" ELSE q2

\* quality_change after the two if statements.
quality_change(noise_delta, sharpness_delta) ==
    LET q1 == "improved"
        q2 == IF noise_delta > 0 THEN "degraded (more noise)" ELSE q1
    IN  IF sharpness_delta < 0 THEN "softer/blurred" ELSE q2

\* The executive summary with '>= 0' in the tests of the quick stats.
ExecutiveSummary_zero_increased(edge_data, noise_data, sharp_data) ==
    << Text("1. EXECUTIVE SUMMARY"),
       Text("--------------------"),
       [verdict |-> quality_change(noise_data.noise_delta, sharp_data.sharpness_delta)],
       Line("Sharpness", IF sharp_data.sharpness_delta >= 0 THEN "Increased" ELSE "Decreased"),
       Line("Noise", IF noise_data.noise_delta >= 0 THEN "Increased" ELSE "Decreased"),
       Line("Edges", IF edge_data.density_delta >= 0 THEN "More Details" ELSE "Smoother"),
       Text("") >>

ExecutiveSummary(edge_data, noise_data, sharp_data) ==
    << Text("1. EXECUTIVE SUMMARY"),
       Text("--------------------"),
       [verdict |-> quality_change(noise_data.noise_delta, sharp_data.sharpness_delta)],
       Line("Sharpness", IF sharp_data.sharpness_delta > 0 THEN "Increased" ELSE "Decreased"),
       Line("Noise", IF noise_data.noise_delta > 0 THEN "Increased" ELSE "Decreased"),
       Line("Edges", IF edge_data.density_delta > 0 THEN "More Details" ELSE "Smoother"),
       Text("") >>

\* The metrics section under the header of the artifacts section.
MetricsSection_wrong_header(metric_data) ==
    IF metric_data = None THEN <<>>
    ELSE << Text("3. SIGNAL ANALYSIS"),
            Text("--------------------"),
            Line("PSNR", metric_data.psnr),
            Line("SSIM", metric_data.ssim),
            Line("MSE", metric_data.mse),
            Text("") >>

MetricsSection(metric_data) ==
    IF metric_data = None THEN <<>>
    ELSE << Text("2. QUALITY METRICS"),
            Text("--------------------"),
            Line("PSNR", metric_data.psnr),
            Line("SSIM", metric_data.ssim),
            Line("MSE", metric_data.mse),
            Text("") >>

ArtifactsSection(art_data) ==
    IF art_data = None THEN <<>>
    ELSE << Text("3. SIGNAL ANALYSIS"),
            Text("--------------------"),
            Line("Compression Artifacts", art_data.compression),
            Line("Oversmoothing Risk", art_data.smoothing),
            Text("") >>

ToneSection(hist_data) ==
    << Text("4. COLOR & TONE"),
       Text("--------------------"),
       Line("Brightness Delta", hist_data.brightness_delta),
       Line("Contrast Delta", hist_data.contrast_delta),
       Line("Histogram Shift", hist_data.histogram_delta_score),
       Text("") >>

generate_summary_text(edge_data, noise_data, hist_data, sharp_data, metric_data, art_data) ==
    << Text("=== PyPic Editor Analysis Report ==="),
       Text("=================================="),
       Text("") >>
      \o ExecutiveSummary(edge_data, noise_data, sharp_data)
      \o MetricsSection(metric_data)
      \o ArtifactsSection(art_data)
      \o ToneSection(hist_data)
      \o << Text("End of Report") >>

\* ------------------------------------------------------------------ state
VARIABLES
    \* a caller of the analysis functions
    img_orig,           \* the original raster handed to the analyzer
    img_edited,         \* the edited raster handed to the analyzer
    called,             \* the function that was called, "none" before the call
    result,             \* what it returned or raised
    history,            \* the images first handed over, the calls made, each first result
    ncalls,             \* the number of calls made
    \* PyPicEditorApp
    original_image,     \* self.original_image
    current_image,      \* self.current_image
    edit_state,         \* self.edit_state
    filter_vars,        \* self.filter_vars: the BooleanVar of every filter button
    current_transform_mode, \* app.current_transform_mode
    crop_active,        \* self.crop_active
    analysis_results,   \* what update_analysis_ui last displayed and stored
    after_queue,        \* callbacks handed to root.after(0, ...), in order
    threads,            \* the run_analysis threads: position and locals
    next_gen,           \* images loaded or cropped so far
    ops,                \* editing operations performed so far
    crop_box,           \* self.crop_box: None or the CropBox and its fields
    canvas_size,        \* (canvas.winfo_width(), canvas.winfo_height())
    crop_scale,         \* self._crop_scale, None while the attribute is not set
    canvas_bindings,    \* the handlers bound to <Button-1>, <B1-Motion>, <ButtonRelease-1>
    crop_buttons_frame, \* self.crop_buttons_frame is not None: the buttons are shown
    cropped             \* the last current_image.crop(...) call of confirm_crop

anvars == <<img_orig, img_edited, called, result, history, ncalls>>

modevars == <<canvas_size, crop_scale, canvas_bindings, crop_buttons_frame, cropped>>

cropvars == <<crop_box, canvas_size, crop_scale, canvas_bindings, crop_buttons_frame, cropped>>

editvars == <<original_image, current_image, edit_state, filter_vars, current_transform_mode,
              crop_active, analysis_results, after_queue, threads, next_gen, ops>>

appvars == <<original_image, current_image, edit_state, filter_vars, current_transform_mode,
             crop_active, analysis_results, after_queue, threads, next_gen, ops, crop_box,
             canvas_size, crop_scale, canvas_bindings, crop_buttons_frame, cropped>>

vars == <<img_orig, img_edited, called, result, history, ncalls, original_image, current_image, edit_state,
          filter_vars, current_transform_mode, crop_active, analysis_results, after_queue,
          threads, next_gen, ops, crop_box, canvas_size, crop_scale, canvas_bindings,
          crop_buttons_frame, cropped>>

NoResult == [kind |-> "none"]

\* None, for an image attribute.
NoImage == [kind |-> "None"]

\* winfo_width() and winfo_height() of a canvas that is not laid out yet.
Unmapped == <<1, 1>>

FilterKeys == {"gray", "sepia", "blur", "sharpen", "emboss", "vignette"}

ToneKeys == {"brightness", "contrast", "exposure", "highlights"}

TransformKeys == {"rotate", "skew_x", "skew_y"}

\* self.default_edit_state.  A tone key holds the slider value v that stands
\* for the multiplier 2 ** (v / 100): 0 is the multiplier 1.0.
default_edit_state ==
    [k \in FilterKeys \cup ToneKeys \cup TransformKeys |->
        IF k \in FilterKeys THEN FALSE ELSE 0]

Threads == 1..MaxThreads

IdleThread == [pc |-> "idle", img_orig_small |-> NoImage, img_edit_small |-> NoImage,
               res |-> <<>>]

\* The attributes __init__ sets.
AppAttributes ==
    /\ original_image = NoImage
    /\ current_image = NoImage
    /\ edit_state = default_edit_state
    /\ filter_vars = [k \in FilterKeys |-> FALSE]
    /\ current_transform_mode = "None"
    /\ crop_active = FALSE
    /\ analysis_results = NoResult
    /\ after_queue = <<>>
    /\ threads = [t \in Threads |-> IdleThread]
    /\ next_gen = 0
    /\ ops = 0
    /\ crop_box = [kind |-> "None"]
    /\ crop_scale = [kind |-> "None"]
    /\ canvas_bindings = "default"
    /\ crop_buttons_frame = FALSE
    /\ cropped = [kind |-> "None"]

\* The application after construction: the canvas is not laid out yet.
AppInit ==
    /\ AppAttributes
    /\ canvas_size = Unmapped

\* The analyzers, as run_analysis names them.
Analyzers == {"analyze_edges", "analyze_noise", "analyze_histogram", "analyze_sharpness",
              "analyze_metrics", "detect_compression_artifacts", "detect_oversmoothing"}

\* A caller that has called nothing yet.
NoCalls ==
    /\ called = "none"
    /\ result = NoResult
    /\ history = [inputs |-> <<img_orig, img_edited>>, calls |-> <<>>,
                  first |-> [n \in Analyzers |-> NoResult]]
    /\ ncalls = 0

Init ==
    /\ img_orig \in Rasters
    /\ img_edited \in Rasters
    /\ NoCalls
    /\ AppInit

\* One call of f on the inputs, by a caller that has made none yet.
Call(name, value) ==
    /\ called = "none"
    /\ called' = name
    /\ result' = value
    /\ UNCHANGED <<img_orig, img_edited, history, ncalls>>
    /\ UNCHANGED appvars

AnalyzeMetrics == Call("analyze_metrics", analyze_metrics(img_orig, img_edited))

AnalyzeEdges == Call("analyze_edges", analyze_edges(img_orig, img_edited))

\* calculate_edge_preservation on the two magnitude fields analyze_edges passes.
CalculateEdgePreservation ==
    Call("calculate_edge_preservation",
         calculate_edge_preservation(sobel_edge_detection(img_orig).mag_norm,
                                     sobel_edge_detection(img_edited).mag_norm))

AnalyzeNoise == Call("analyze_noise", analyze_noise(img_orig, img_edited))

AnalyzeHistogram == Call("analyze_histogram", analyze_histogram(img_orig, img_edited))

AnalyzeSharpness == Call("analyze_sharpness", analyze_sharpness(img_orig, img_edited))

\* calculate_snr and calculate_psnr as analyze_metrics calls them.
CalculateSnr == Call("calculate_snr", calculate_snr(img_orig))

CalculatePsnr == Call("calculate_psnr", calculate_psnr(img_orig, img_edited))

\* The float fields the code normalizes for display: the Sobel magnitude, the
\* local variance and the absolute Laplacian response; and the signed
\* Laplacian response.
FloatField(img, which) ==
    CASE which = "magnitude" -> SobelMagnitude(img)
      [] which = "local_var" -> LocalVar(img)
      [] which = "laplacian" -> Laplacian(img)
      [] which = "abs_laplacian" ->
            [w |-> img.w, h |-> img.h,
             a |-> [i \in 1..NumPixels(img) |-> Abs(Laplacian(img).a[i])]]

NormalizeArray ==
    \E which \in {"magnitude", "local_var", "laplacian", "abs_laplacian"} :
        Call("normalize_array",
             [kind |-> "array", arg |-> FloatField(img_orig, which),
              out |-> normalize_array(FloatField(img_orig, which))])

Next ==
    \/ NormalizeArray
    \/ AnalyzeMetrics
    \/ AnalyzeEdges
    \/ CalculateEdgePreservation
    \/ AnalyzeNoise
    \/ AnalyzeHistogram
    \/ AnalyzeSharpness
    \/ CalculateSnr
    \/ CalculatePsnr

Spec == Init /\ [][Next]_vars

\* ---- a caller that calls the analyzers again and again on two image objects
\* The rasters it holds: 2x2, each column of one colour.
CallRasters == {r \in Rasters : r.w = 2 /\ r.h = 2 /\ r.px[3] = r.px[1] /\ r.px[4] = r.px[2]}

\* What an analyzer returns for the pixels the two image objects hold.
AnalyzerResult(name, orig, edited) ==
    CASE name = "analyze_edges" -> analyze_edges(orig, edited)
      [] name = "analyze_noise" -> analyze_noise(orig, edited)
      [] name = "analyze_histogram" -> analyze_histogram(orig, edited)
      [] name = "analyze_sharpness" -> analyze_sharpness(orig, edited)
      [] name = "analyze_metrics" -> analyze_metrics(orig, edited)
      [] name = "detect_compression_artifacts" ->
            [kind |-> "score", score |-> detect_compression_artifacts(edited)]
      [] name = "detect_oversmoothing" ->
            [kind |-> "score", score |-> detect_oversmoothing(edited)]

\* diff_map aliasing the original's pixels in analyze_noise (np.asarray of
\* the image instead of np.zeros).
diff_map_buffer_aliased(name) == IF name = "analyze_noise" THEN "orig" ELSE "fresh"

\* The buffer that holds diff_map, the array analyze_edges and analyze_noise
\* fill in place: np.zeros allocates it in the call.  Every other array or
\* image the analyzers work on is a copy or a new object as well (np.array,
\* img.convert, np.pad, Image.new); the fields they slice are views of the
\* padded copies and are only read.
diff_map_buffer(name) == "fresh"

\* The writes in place of one call: the buffer written and the pixels it holds
\* afterwards.
InPlaceWrites(name, res) ==
    IF name \in {"analyze_edges", "analyze_noise"} /\ res.kind \in {"edges", "noise"}
    THEN <<[buffer |-> diff_map_buffer(name), value |-> res.difference_map]>>
    ELSE <<>>

\* The pixels of an image object after the writes.
AfterWrites(buffer, img, writes) ==
    IF \E i \in 1..Len(writes) : writes[i].buffer = buffer
    THEN writes[CHOOSE i \in 1..Len(writes) :
                  /\ writes[i].buffer = buffer
                  /\ \A j \in (i + 1)..Len(writes) : writes[j].buffer # buffer].value
    ELSE img

\* One call: what it returns, and what the two image objects hold afterwards.
Returned(name, res, writes) ==
    /\ ncalls < MaxCalls
    /\ ncalls' = ncalls + 1
    /\ called' = name
    /\ result' = res
    /\ history' = [history EXCEPT
                     !.calls = Append(@, name),
                     !.first[name] = IF @ = NoResult THEN res ELSE @]
    /\ img_orig' = AfterWrites("orig", img_orig, writes)
    /\ img_edited' = AfterWrites("edited", img_edited, writes)
    /\ UNCHANGED appvars

AnalyzerCall ==
    \E name \in Analyzers :
        Returned(name, AnalyzerResult(name, img_orig, img_edited),
                 InPlaceWrites(name, AnalyzerResult(name, img_orig, img_edited)))

InitCalls ==
    /\ img_orig \in CallRasters
    /\ img_edited \in CallRasters
    /\ NoCalls
    /\ AppInit

NextCalls == AnalyzerCall

SpecCalls == InitCalls /\ [][NextCalls]_vars

\* ---- a caller of the functions that take no pair of rasters
\* The deltas a report is written for: only their signs are tested.
Deltas == (-MaxDelta)..MaxDelta

\* metric_data and art_data: left out (None), or the dictionaries
\* update_analysis_ui passes.
MetricInputs == {None, [psnr |-> 30, ssim |-> 1, mse |-> 65]}

ArtInputs == {None, [compression |-> 0, smoothing |-> 12]}

GenerateSummaryText ==
    \E n \in Deltas, sh \in Deltas, d \in Deltas, metric_data \in MetricInputs, art_data \in ArtInputs :
        Call("generate_summary_text",
             [kind |-> "report", noise_delta |-> n, sharpness_delta |-> sh, density_delta |-> d,
              metric_data |-> metric_data, art_data |-> art_data,
              lines |-> generate_summary_text(
                            [density_delta |-> d], [noise_delta |-> n],
                            [brightness_delta |-> 0, contrast_delta |-> 0,
                             histogram_delta_score |-> 0],
                            [sharpness_delta |-> sh], metric_data, art_data)])

\* The images detect_compression_artifacts is given: every size up to
\* MaxSide x MaxSide, painted in one of four ways.
Patterns == {"solid", "blocks", "stripes", "offset_blocks"}

\* solid: one colour.  blocks: 8x8 blocks, black and red in turn.  stripes:
\* black and blue pixels in turn.  offset_blocks: 8-pixel bands that change
\* colour in the middle of the 8-pixel blocks.
PatternColour(pattern, x, y) ==
    CASE pattern = "solid" -> Red
      [] pattern = "blocks" -> IF ((x \div 8) + (y \div 8)) % 2 = 0 THEN Black ELSE Red
      [] pattern = "stripes" -> IF (x + y) % 2 = 0 THEN Black ELSE Blue
      [] pattern = "offset_blocks" ->
            IF (((x + 4) \div 8) + ((y + 4) \div 8)) % 2 = 0 THEN Black ELSE Red

PatternRaster(w, h, pattern) ==
    [w |-> w, h |-> h,
     px |-> [i \in 1..(w * h) |-> PatternColour(pattern, (i - 1) % w, (i - 1) \div w)]]

DetectCompressionArtifacts ==
    \E w \in 1..MaxSide, h \in 1..MaxSide, pattern \in Patterns :
        Call("detect_compression_artifacts",
             [kind |-> "score", w |-> w, h |-> h, pattern |-> pattern,
              score |-> detect_compression_artifacts(PatternRaster(w, h, pattern))])

\* The images estimate_gaussian_noise is given: every black and red raster of
\* up to MaxNoiseSide x MaxNoiseSide pixels.
NoiseRasters ==
    UNION {{[w |-> w, h |-> h, px |-> px] : px \in [1..(w * h) -> {Black, Red}]} :
             <<w, h>> \in (1..MaxNoiseSide) \X (1..MaxNoiseSide)}

EstimateGaussianNoise ==
    \E img \in NoiseRasters :
        Call("estimate_gaussian_noise",
             [kind |-> "noise_level", img |-> img, sigma |-> estimate_gaussian_noise(img)])

CalculateLocalVariance ==
    \E img \in NoiseRasters :
        Call("calculate_local_variance",
             [kind |-> "local_variance", img |-> img, res |-> calculate_local_variance(img)])

\* The images whose histograms are plotted: rows of up to MaxHistPixels
\* pixels in three colours, one of them with a channel in bin 1, next to bin 0.
HistColours == {Black, Red, <<1, 128, 255>>}

HistRasters ==
    UNION {{[w |-> n, h |-> 1, px |-> px] : px \in [1..n -> HistColours]} : n \in 1..MaxHistPixels}

PlotAlignedHistograms ==
    \E orig \in HistRasters, edited \in HistRasters :
        Call("plot_aligned_histograms_pil",
             [kind |-> "plots", orig |-> orig, edited |-> edited,
              res |-> plot_aligned_histograms_pil(FullHist(orig), FullHist(edited))])

\* ---------------------------------------------------------- image_ops.py
\* The static methods class ImageEditor defines.
ImageEditorMethods ==
    {"adjust_brightness", "adjust_contrast", "rotate", "crop", "resize", "to_grayscale",
     "apply_sepia", "blur", "sharpen", "apply_emboss", "adjust_highlights",
     "adjust_exposure", "apply_vignette", "apply_warmth", "apply_cool", "skew"}

\* ImageEditor.<name>: the method, or the AttributeError of a name the class
\* does not define.
ImageEditorAttr(name) ==
    IF name \in ImageEditorMethods THEN [kind |-> "method", name |-> name]
    ELSE Raised("AttributeError")

\* res = ImageEditor.mirror(self.img) of test_mirror.
test_mirror ==
    \E img \in Rasters :
        Call("ImageEditor.mirror",
             [kind |-> "transform", img |-> img, res |-> ImageEditorAttr("mirror")])

\* The side of the image of TestImageOps.setUp.
TestSide == 100

SkewSides == (1..MaxSkewSide) \cup {TestSide}

SkewAngles == {-60, -45, -30, -15, 0, 15, 30, 45, 60}

\* floor(10^6 * |math.tan(math.radians(angle))|) in double precision;
\* math.tan(math.radians(45)) is 0.9999999999999999.
TanMicro(angle) ==
    CASE Abs(angle) = 0 -> 0
      [] Abs(angle) = 15 -> 267949
      [] Abs(angle) = 30 -> 577350
      [] Abs(angle) = 45 -> 999999
      [] Abs(angle) = 60 -> 1732050

\* int(abs(len * tan_theta)), exact for the sides up to TestSide + 1.
SkewGrowth(len, angle) == (len * TanMicro(angle)) \div 1000000

\* ImageEditor.skew without the limit on the angle.
skew_unclamped(img, angle, direction) ==
    IF direction = "horizontal"
    THEN [kind |-> "image", w |-> img.w + SkewGrowth(img.h, angle), h |-> img.h]
    ELSE [kind |-> "image", w |-> img.w, h |-> img.h + SkewGrowth(img.w, angle)]

\* The size of ImageEditor.skew(img, angle, direction).
skew(img, angle, direction) ==
    IF direction = "horizontal"
    THEN [kind |-> "image",
          w |-> img.w + SkewGrowth(img.h, Max2(-45, Min2(45, angle))), h |-> img.h]
    ELSE [kind |-> "image",
          w |-> img.w, h |-> img.h + SkewGrowth(img.w, Max2(-45, Min2(45, angle)))]

Skew ==
    \E w \in SkewSides, h \in SkewSides, angle \in SkewAngles,
       direction \in {"horizontal", "vertical"} :
        Call("ImageEditor.skew",
             [kind |-> "transform", w |-> w, h |-> h, angle |-> angle,
              direction |-> direction,
              res |-> skew([w |-> w, h |-> h], angle, direction)])

\* No pair of rasters is held.
InitFn ==
    /\ img_orig = [w |-> 1, h |-> 1, px |-> <<Black>>]
    /\ img_edited = [w |-> 1, h |-> 1, px |-> <<Black>>]
    /\ NoCalls
    /\ AppInit

NextFn ==
    \/ GenerateSummaryText
    \/ DetectCompressionArtifacts
    \/ EstimateGaussianNoise
    \/ CalculateLocalVariance
    \/ PlotAlignedHistograms
    \/ test_mirror
    \/ Skew

SpecFn == InitFn /\ [][NextFn]_vars

\* ----------------------------------------------------------- crop_box.py
\* int(n * 0.7): the double product is just below the integer for the sides
\* listed (sides up to 1000).
Int07(n) ==
    ((7 * n) \div 10)
      - (IF n \in {90, 170, 180, 330, 340, 350, 360,
                   650, 660, 670, 680, 690, 700, 710, 720, 730} THEN 1 ELSE 0)

\* CropBox(canvas, image_bounds): the box is centred at 70% of the image
\* area; nothing is being dragged.
CropBox(image_bounds) ==
    LET img_x == image_bounds[1]
        img_y == image_bounds[2]
        img_w == image_bounds[3]
        img_h == image_bounds[4]
        width == Int07(img_w)
        height == Int07(img_h)
    IN  [kind |-> "CropBox",
         img_x |-> img_x, img_y |-> img_y, img_w |-> img_w, img_h |-> img_h,
         x |-> img_x + ((img_w - width) \div 2),
         y |-> img_y + ((img_h - height) \div 2),
         width |-> width, height |-> height,
         active_handle |-> "None",
         drag_start_x |-> 0, drag_start_y |-> 0,
         drag_start_rect |-> <<0, 0, 0, 0>>,
         min_size |-> 20]

Handles == {"move", "nw", "ne", "sw", "se", "n", "s", "w", "e"}

\* _constrain_to_bounds with the tests of the right and bottom edges left out.
constrain_to_bounds_near_edges_only(b) ==
    [b EXCEPT !.x = IF b.x < b.img_x THEN b.img_x ELSE b.x,
              !.y = IF b.y < b.img_y THEN b.img_y ELSE b.y]

\* _constrain_to_bounds: the second test of an axis sees the first one's x (y).
constrain_to_bounds(b) ==
    LET x1 == IF b.x < b.img_x THEN b.img_x ELSE b.x
        x2 == IF x1 + b.width > b.img_x + b.img_w THEN b.img_x + b.img_w - b.width ELSE x1
        y1 == IF b.y < b.img_y THEN b.img_y ELSE b.y
        y2 == IF y1 + b.height > b.img_y + b.img_h THEN b.img_y + b.img_h - b.height ELSE y1
    IN  [b EXCEPT !.x = x2, !.y = y2]

\* The "constrain to image bounds" half of _constrain_resize.
ResizeWithinBounds(b) ==
    LET w1 == IF b.x < b.img_x THEN b.width + (b.x - b.img_x) ELSE b.width
        x1 == IF b.x < b.img_x THEN b.img_x ELSE b.x
        h1 == IF b.y < b.img_y THEN b.height + (b.y - b.img_y) ELSE b.height
        y1 == IF b.y < b.img_y THEN b.img_y ELSE b.y
        w2 == IF x1 + w1 > b.img_x + b.img_w THEN b.img_x + b.img_w - x1 ELSE w1
        h2 == IF y1 + h1 > b.img_y + b.img_h THEN b.img_y + b.img_h - y1 ELSE h1
    IN  [b EXCEPT !.x = x1, !.y = y1, !.width = w2, !.height = h2]

\* _constrain_resize without the "enforce minimum size" half.
constrain_resize_no_minimum(b) == ResizeWithinBounds(b)

\* _constrain_resize: the minimum size first, then the image bounds.
constrain_resize(b) ==
    LET x1 == IF b.width < b.min_size /\ b.active_handle \in {"nw", "w", "sw"}
              THEN b.x + b.width - b.min_size ELSE b.x
        w1 == IF b.width < b.min_size THEN b.min_size ELSE b.width
        y1 == IF b.height < b.min_size /\ b.active_handle \in {"nw", "n", "ne"}
              THEN b.y + b.height - b.min_size ELSE b.y
        h1 == IF b.height < b.min_size THEN b.min_size ELSE b.height
    IN  ResizeWithinBounds([b EXCEPT !.x = x1, !.y = y1, !.width = w1, !.height = h1])

\* CropBox.start_drag(x, y, handle)
StartDrag(b, x, y, handle) ==
    [b EXCEPT !.active_handle = handle, !.drag_start_x = x, !.drag_start_y = y,
              !.drag_start_rect = <<b.x, b.y, b.width, b.height>>]

\* CropBox.update_drag(x, y)
UpdateDrag(b, x, y) ==
    LET dx == x - b.drag_start_x
        dy == y - b.drag_start_y
        start_x == b.drag_start_rect[1]
        start_y == b.drag_start_rect[2]
        start_w == b.drag_start_rect[3]
        start_h == b.drag_start_rect[4]
        h == b.active_handle
    IN  IF h = "None" THEN b
        ELSE IF h = "move"
        THEN constrain_to_bounds([b EXCEPT !.x = start_x + dx, !.y = start_y + dy])
        ELSE constrain_resize(
               [b EXCEPT !.x = IF h \in {"nw", "sw", "w"} THEN start_x + dx ELSE @,
                         !.y = IF h \in {"nw", "ne", "n"} THEN start_y + dy ELSE @,
                         !.width = IF h \in {"nw", "sw", "w"} THEN start_w - dx
                                   ELSE IF h \in {"ne", "se", "e"} THEN start_w + dx ELSE @,
                         !.height = IF h \in {"nw", "ne", "n"} THEN start_h - dy
                                    ELSE IF h \in {"sw", "se", "s"} THEN start_h + dy ELSE @])

\* CropBox.end_drag()
EndDrag(b) == [b EXCEPT !.active_handle = "None"]

\* CropBox.get_crop_rect(): (rel_x, rel_y, width, height)
get_crop_rect(b) == <<b.x - b.img_x, b.y - b.img_y, b.width, b.height>>

\* self.handle_size
handle_size == 12

\* The handles in the order get_handle_at tests them, and where each one is.
HandleOrder == <<"nw", "ne", "sw", "se", "n", "s", "w", "e">>

HandleAt(b, name) ==
    <<IF name \in {"nw", "sw", "w"} THEN b.x
      ELSE IF name \in {"ne", "se", "e"} THEN b.x + b.width
      ELSE b.x + (b.width \div 2),
      IF name \in {"nw", "ne", "n"} THEN b.y
      ELSE IF name \in {"sw", "se", "s"} THEN b.y + b.height
      ELSE b.y + (b.height \div 2)>>

\* CropBox.get_handle_at(x, y): the first handle within handle_size of the
\* point, 'move' inside the box, None elsewhere.
get_handle_at(b, x, y) ==
    LET near == {i \in 1..Len(HandleOrder) :
                    /\ Abs(x - HandleAt(b, HandleOrder[i])[1]) <= handle_size
                    /\ Abs(y - HandleAt(b, HandleOrder[i])[2]) <= handle_size}
    IN  IF near # {} THEN HandleOrder[CHOOSE i \in near : \A j \in near : i <= j]
        ELSE IF b.x <= x /\ x <= b.x + b.width /\ b.y <= y /\ y <= b.y + b.height
        THEN "move"
        ELSE "None"

\* ---------------------------------------------------------------- main.py
\* ana_w, ana_h of run_analysis
ana_w == 800
ana_h == 800

\* The sizes of the image files the user opens.
OpenSizes == {<<1600, 1200>>, <<600, 400>>, <<300, 900>>}

\* The values the user drags a tone slider to.
SliderValues == {0, 100}

\* The values the user drags the transform slider to, by mode.
TransformValues(mode) == IF mode = "rotate" THEN {0, 90, 180} ELSE {0, 45}

\* An image of the application: its size, the image file or crop it comes from
\* (gen) and the edits applied to that source; two images with the same
\* source, edits and size have the same pixels.
NewImage(w, h, gen) ==
    [kind |-> "img", w |-> w, h |-> h, gen |-> gen, edits |-> default_edit_state,
     applied |-> <<>>]

\* int(abs(len * tan(angle))) of ImageEditor.skew for the angles 0 and +-45
\* degrees: math.tan(math.radians(45)) is 0.9999999999999999.
SkewGrow(len, angle) == IF angle = 0 THEN 0 ELSE len - 1

\* The steps of apply_pipeline, in the order of its if statements.
PipelineOrder ==
    <<"rotate", "skew_x", "skew_y",
      "gray", "sepia", "blur", "sharpen", "emboss", "vignette",
      "brightness", "contrast", "exposure", "highlights">>

\* The test of a step: a filter's flag, a value other than 0 for rotate and
\* the skews (a turn by a multiple of 360 degrees leaves the pixels as they
\* are), a multiplier other than 1.0 for a tone control.
StepApplies(es, key) ==
    IF key \in FilterKeys THEN es[key]
    ELSE IF key = "rotate" THEN es[key] % 360 # 0
    ELSE es[key] # 0

\* The ImageEditor calls apply_pipeline makes, in order.
PipelineSteps(es) ==
    LET steps[i \in 0..Len(PipelineOrder)] ==
            IF i = 0 THEN <<>>
            ELSE IF StepApplies(es, PipelineOrder[i])
            THEN Append(steps[i - 1], PipelineOrder[i])
            ELSE steps[i - 1]
    IN  steps[Len(PipelineOrder)]

\* The image apply_pipeline computes from a copy of the original: rotate with
\* expand=True swaps the sides at 90 and 270 degrees, a skew widens one side,
\* the filters and the tone controls keep the size.
Pipeline(orig, es) ==
    LET r == es["rotate"] % 360
        w1 == IF r \in {90, 270} THEN orig.h ELSE orig.w
        h1 == IF r \in {90, 270} THEN orig.w ELSE orig.h
        w2 == w1 + SkewGrow(h1, es["skew_x"])
        h2 == h1 + SkewGrow(w2, es["skew_y"])
    IN  [kind |-> "img", w |-> w2, h |-> h2, gen |-> orig.gen,
         edits |-> [es EXCEPT !["rotate"] = r], applied |-> PipelineSteps(es)]

\* apply_pipeline working on the current image, not on a copy of the original.
apply_pipeline_on_current(orig, cur, es) == IF orig = NoImage THEN cur ELSE Pipeline(cur, es)

\* self.current_image after apply_pipeline().
apply_pipeline(orig, cur, es) == IF orig = NoImage THEN cur ELSE Pipeline(orig, es)

\* The order of self.sliders.
SliderOrder == <<"brightness", "contrast", "exposure", "highlights">>

\* reset_controls: scale.set(0) on every slider runs on_slider_change(key, 0),
\* which stores the value and runs apply_pipeline; then the filter variables
\* are cleared and edit_state becomes a copy of default_edit_state.  The
\* result is the current image and the edit state it leaves.
reset_controls(orig, cur, es) ==
    LET step[i \in 0..Len(SliderOrder)] ==
            IF i = 0 THEN [cur |-> cur, es |-> es]
            ELSE LET es1 == [step[i - 1].es EXCEPT ![SliderOrder[i]] = 0]
                 IN  [cur |-> apply_pipeline(orig, step[i - 1].cur, es1), es |-> es1]
    IN  [cur |-> step[Len(SliderOrder)].cur, es |-> default_edit_state]

\* Image.thumbnail((ana_w, ana_h)) on a copy: an image that fits is left as it
\* is; otherwise the side that overflows more becomes the bound and the other
\* is the floor or the ceiling of the scaled side, whichever keeps the aspect
\* ratio better (the floor on a tie), and at least 1.
Thumbnail(img) ==
    IF ana_w >= img.w /\ ana_h >= img.h THEN img
    ELSE IF ana_w * img.h >= ana_h * img.w
    THEN LET fl == (ana_h * img.w) \div img.h
             ce == IF fl * img.h = ana_h * img.w THEN fl ELSE fl + 1
             x == IF Abs(ana_h * img.w - fl * img.h) <= Abs(ana_h * img.w - ce * img.h)
                  THEN fl ELSE ce
         IN  [img EXCEPT !.w = Max2(x, 1), !.h = ana_h]
    ELSE LET fl == (ana_w * img.h) \div img.w
             ce == IF fl * img.w = ana_w * img.h THEN fl ELSE fl + 1
             y == IF fl = 0 THEN fl
                  ELSE IF Abs(img.w * fl - ana_w * img.h) * ce
                            <= Abs(img.w * ce - ana_w * img.h) * fl
                  THEN fl ELSE ce
         IN  [img EXCEPT !.w = ana_w, !.h = Max2(y, 1)]

\* run_analysis without lines 649-652: the edited image is never resized.
AlignEdited_no_resize(img_orig_small, img_edit_small) == img_edit_small

\* Lines 649-652 of run_analysis: the edited image is resized to the size of
\* the original when the sizes differ.
AlignEdited(img_orig_small, img_edit_small) ==
    IF Size(img_orig_small) # Size(img_edit_small)
    THEN [img_edit_small EXCEPT !.w = img_orig_small.w, !.h = img_orig_small.h]
    ELSE img_edit_small

\* The analyzer calls of run_analysis, in order; the last two take the edited
\* image only.
AnalyzerCalls == <<"analyze_edges", "analyze_noise", "analyze_histogram", "analyze_sharpness",
                   "analyze_metrics", "detect_compression_artifacts", "detect_oversmoothing">>

\* ---- the handlers of the UI thread
Edit == ops < MaxOps /\ ops' = ops + 1 /\ UNCHANGED anvars /\ UNCHANGED cropvars

open_image ==
    \E size \in OpenSizes :
        LET img == NewImage(size[1], size[2], next_gen + 1)
            rc == reset_controls(img, img, edit_state)
        IN  /\ Edit
            /\ original_image' = img
            /\ current_image' = rc.cur
            /\ edit_state' = rc.es
            /\ filter_vars' = [k \in FilterKeys |-> FALSE]
            /\ next_gen' = next_gen + 1
            /\ UNCHANGED <<current_transform_mode, crop_active, analysis_results,
                           after_queue, threads>>

reset_image ==
    /\ original_image # NoImage
    /\ Edit
    /\ LET rc == reset_controls(original_image, original_image, edit_state)
       IN  /\ current_image' = rc.cur
           /\ edit_state' = rc.es
    /\ filter_vars' = [k \in FilterKeys |-> FALSE]
    /\ UNCHANGED <<original_image, current_transform_mode, crop_active, analysis_results,
                   after_queue, threads, next_gen>>

on_slider_change ==
    \E key \in ToneKeys, val \in SliderValues :
        /\ Edit
        /\ edit_state' = [edit_state EXCEPT ![key] = val]
        /\ current_image' = apply_pipeline(original_image, current_image, edit_state')
        /\ UNCHANGED <<original_image, filter_vars, current_transform_mode, crop_active,
                       analysis_results, after_queue, threads, next_gen>>

\* The button flips its variable, then runs on_filter_toggle(key).
on_filter_toggle ==
    \E key \in FilterKeys :
        /\ Edit
        /\ filter_vars' = [filter_vars EXCEPT ![key] = ~filter_vars[key]]
        /\ edit_state' = [edit_state EXCEPT ![key] = filter_vars'[key]]
        /\ current_image' = apply_pipeline(original_image, current_image, edit_state')
        /\ UNCHANGED <<original_image, current_transform_mode, crop_active,
                       analysis_results, after_queue, threads, next_gen>>

\* apply_transform("rotate_left") and apply_transform("rotate_right")
apply_transform ==
    \E turn \in {90, -90} :
        /\ original_image # NoImage
        /\ Edit
        /\ edit_state' = [edit_state EXCEPT !["rotate"] = edit_state["rotate"] + turn]
        /\ current_image' = apply_pipeline(original_image, current_image, edit_state')
        /\ UNCHANGED <<original_image, filter_vars, current_transform_mode, crop_active,
                       analysis_results, after_queue, threads, next_gen>>

\* show_slider_panel(app, mode): transform_scale.set(current_val) runs
\* on_transform_slider with the value edit_state already holds.
show_slider_panel ==
    \E mode \in TransformKeys :
        /\ Edit
        /\ current_transform_mode' = mode
        /\ current_image' = apply_pipeline(original_image, current_image, edit_state)
        /\ UNCHANGED <<original_image, edit_state, filter_vars, crop_active,
                       analysis_results, after_queue, threads, next_gen>>

hide_slider_panel ==
    /\ current_transform_mode # "None"
    /\ Edit
    /\ current_transform_mode' = "None"
    /\ UNCHANGED <<original_image, current_image, edit_state, filter_vars, crop_active,
                   analysis_results, after_queue, threads, next_gen>>

on_transform_slider ==
    /\ current_transform_mode # "None"
    /\ \E val \in TransformValues(current_transform_mode) :
        /\ Edit
        /\ edit_state' = [edit_state EXCEPT ![current_transform_mode] = val]
        /\ current_image' = apply_pipeline(original_image, current_image, edit_state')
        /\ UNCHANGED <<original_image, filter_vars, current_transform_mode, crop_active,
                       analysis_results, after_queue, threads, next_gen>>

\* ---- crop mode
\* The size of the canvas in the window as it is first shown.
ShownCanvas == <<800, 600>>

\* The sizes the window manager gives the canvas.
CanvasSizes == {ShownCanvas, <<400, 300>>}

\* min(w_canvas / img_w, h_canvas / img_h), kept as canvas side / image side.
MinScale(canvas, img) ==
    IF canvas[1] * img.h <= canvas[2] * img.w
    THEN [kind |-> "scale", num |-> canvas[1], den |-> img.w]
    ELSE [kind |-> "scale", num |-> canvas[2], den |-> img.h]

\* The (a, canvas side, image side) for which the double a * (canvas side /
\* image side) is just below the integer it stands for.
TimesBelow == {<<1156, 400, 1156>>, <<1156, 800, 1156>>}

\* The (a, canvas side, image side) for which the double a / (canvas side /
\* image side) is just below the integer it stands for.
OverBelow == {<<300, 300, 51>>, <<600, 600, 51>>}

\* int(a * scale)
IntTimes(a, scale) ==
    ((a * scale.num) \div scale.den)
      - (IF <<a, scale.num, scale.den>> \in TimesBelow THEN 1 ELSE 0)

\* int(a / scale)
IntOver(a, scale) ==
    ((a * scale.den) \div scale.num)
      - (IF <<a, scale.num, scale.den>> \in OverBelow THEN 1 ELSE 0)

\* Lines 872-881 of _activate_crop_mode: the scale, and the CropBox made for
\* the image area (off_x, off_y, disp_w, disp_h).
CropOverlay(img, canvas) ==
    LET scale == MinScale(canvas, img)
        disp_w == IntTimes(img.w, scale)
        disp_h == IntTimes(img.h, scale)
        off_x == (canvas[1] - disp_w) \div 2
        off_y == (canvas[2] - disp_h) \div 2
    IN  [crop_scale |-> scale, crop_box |-> CropBox(<<off_x, off_y, disp_w, disp_h>>)]

\* _activate_crop_mode: crop_active is set first; on a canvas that is not laid
\* out, or an image with an empty side, the method returns there.
activate_crop_mode ==
    /\ crop_active' = TRUE
    /\ IF \/ current_image.w = 0 \/ current_image.h = 0
          \/ canvas_size[1] <= 1 \/ canvas_size[2] <= 1
       THEN /\ crop_box' = [kind |-> "None"]
            /\ UNCHANGED <<crop_scale, canvas_bindings, crop_buttons_frame>>
       ELSE /\ crop_box' = CropOverlay(current_image, canvas_size).crop_box
            /\ crop_scale' = CropOverlay(current_image, canvas_size).crop_scale
            /\ crop_buttons_frame' = TRUE
            /\ canvas_bindings' = "crop"

\* The body of cancel_crop: the box is cleared, the buttons are hidden, the
\* default mouse handlers are bound again.
ExitCropMode ==
    /\ crop_active' = FALSE
    /\ crop_box' = [kind |-> "None"]
    /\ crop_buttons_frame' = FALSE
    /\ canvas_bindings' = "default"

\* toggle_crop_mode: cancel_crop() in crop mode, _activate_crop_mode() otherwise.
toggle_crop_mode ==
    /\ current_image # NoImage
    /\ IF crop_active THEN ExitCropMode /\ UNCHANGED crop_scale ELSE activate_crop_mode
    /\ UNCHANGED <<original_image, current_image, edit_state, filter_vars,
                   current_transform_mode, analysis_results, after_queue, threads, next_gen,
                   ops, canvas_size, cropped>>
    /\ UNCHANGED anvars

cancel_crop ==
    /\ crop_active
    /\ ExitCropMode
    /\ UNCHANGED <<original_image, current_image, edit_state, filter_vars,
                   current_transform_mode, analysis_results, after_queue, threads, next_gen,
                   ops, canvas_size, crop_scale, cropped>>
    /\ UNCHANGED anvars

\* Lines 952-974 of confirm_crop: the box in image pixels, clamped, as
\* (img_x0, img_y0, img_x1, img_y1).
CropRect(box, scale, img) ==
    LET rect == get_crop_rect(box)
        x0 == Max2(0, Min2(IntOver(rect[1], scale), img.w - 1))
        y0 == Max2(0, Min2(IntOver(rect[2], scale), img.h - 1))
        x1 == Max2(x0 + 1, Min2(IntOver(rect[1] + rect[3], scale), img.w))
        y1 == Max2(y0 + 1, Min2(IntOver(rect[2] + rect[4], scale), img.h))
    IN  <<x0, y0, x1, y1>>

\* confirm_crop with a crop area of 5 pixels or more each way: the cropped
\* current image becomes the original and, copied, the current image; then
\* cancel_crop(), reset_controls(), update_preview().
confirm_crop ==
    /\ crop_active
    /\ crop_box.kind # "None"
    /\ current_image # NoImage
    /\ crop_scale.kind # "None"
    /\ LET rect == CropRect(crop_box, crop_scale, current_image)
           img == NewImage(rect[3] - rect[1], rect[4] - rect[2], next_gen + 1)
           rc == reset_controls(img, img, edit_state)
       IN  /\ rect[3] - rect[1] >= 5
           /\ rect[4] - rect[2] >= 5
           /\ ops < MaxOps
           /\ ops' = ops + 1
           /\ cropped' = [kind |-> "crop", rect |-> rect,
                          width |-> current_image.w, height |-> current_image.h,
                          box |-> <<crop_box.x, crop_box.y, crop_box.width, crop_box.height>>,
                          canvas |-> canvas_size]
           /\ original_image' = img
           /\ current_image' = rc.cur
           /\ edit_state' = rc.es
           /\ filter_vars' = [k \in FilterKeys |-> FALSE]
           /\ next_gen' = next_gen + 1
    /\ ExitCropMode
    /\ UNCHANGED <<current_transform_mode, analysis_results, after_queue, threads,
                   canvas_size, crop_scale>>
    /\ UNCHANGED anvars

\* on_canvas_resize: the canvas has its new size and update_preview() draws
\* the current image again; nothing of crop mode is touched.
on_canvas_resize ==
    \E size \in CanvasSizes :
        /\ size # canvas_size
        /\ canvas_size' = size
        /\ UNCHANGED <<crop_box, crop_scale, canvas_bindings, crop_buttons_frame, cropped>>
        /\ UNCHANGED editvars
        /\ UNCHANGED anvars

\* Where the user presses the button: on the south-east handle.
PressPoints(b) == {HandleAt(b, "se")}

\* Where the user drags the pointer to: a corner of the canvas.
DragPoints(canvas) == {<<0, 0>>, <<canvas[1], canvas[2]>>}

\* Image.thumbnail((w, h)) on a copy of the image: the size of the copy (see
\* Thumbnail).
PreviewSize(img, w, h) ==
    IF w >= img.w /\ h >= img.h THEN <<img.w, img.h>>
    ELSE IF w * img.h >= h * img.w
    THEN LET fl == (h * img.w) \div img.h
             ce == IF fl * img.h = h * img.w THEN fl ELSE fl + 1
             x == IF Abs(h * img.w - fl * img.h) <= Abs(h * img.w - ce * img.h)
                  THEN fl ELSE ce
         IN  <<Max2(x, 1), h>>
    ELSE LET fl == (w * img.h) \div img.w
             ce == IF fl * img.w = w * img.h THEN fl ELSE fl + 1
             y == IF fl = 0 THEN fl
                  ELSE IF Abs(img.w * fl - w * img.h) * ce <= Abs(img.w * ce - w * img.h) * fl
                  THEN fl ELSE ce
         IN  <<w, Max2(y, 1)>>

\* update_preview: where on the canvas the current image is drawn, its
\* thumbnail centred at (w // 2, h // 2).
update_preview(img, canvas) ==
    LET w == IF canvas[1] = 0 THEN 800 ELSE canvas[1]
        h == IF canvas[2] = 0 THEN 600 ELSE canvas[2]
        size == PreviewSize(img, w, h)
    IN  [x |-> (w \div 2) - (size[1] \div 2), y |-> (h \div 2) - (size[2] \div 2),
         width |-> size[1], height |-> size[2]]

\* _on_crop_click, the handler of <Button-1> in crop mode, where the pointer
\* is on a handle or inside the box.
on_crop_click ==
    /\ canvas_bindings = "crop"
    /\ crop_active
    /\ crop_box.kind # "None"
    /\ \E p \in PressPoints(crop_box) :
        /\ get_handle_at(crop_box, p[1], p[2]) # "None"
        /\ crop_box' = StartDrag(crop_box, p[1], p[2], get_handle_at(crop_box, p[1], p[2]))
    /\ UNCHANGED modevars
    /\ UNCHANGED editvars
    /\ UNCHANGED anvars

\* _on_crop_drag, the handler of <B1-Motion> in crop mode.
on_crop_drag ==
    /\ canvas_bindings = "crop"
    /\ crop_active
    /\ crop_box.kind # "None"
    /\ \E p \in DragPoints(canvas_size) : crop_box' = UpdateDrag(crop_box, p[1], p[2])
    /\ UNCHANGED modevars
    /\ UNCHANGED editvars
    /\ UNCHANGED anvars

\* _on_crop_release, the handler of <ButtonRelease-1> in crop mode.
on_crop_release ==
    /\ canvas_bindings = "crop"
    /\ crop_active
    /\ crop_box.kind # "None"
    /\ crop_box' = EndDrag(crop_box)
    /\ UNCHANGED modevars
    /\ UNCHANGED editvars
    /\ UNCHANGED anvars

\* run_analysis_thread: a new thread runs run_analysis; the threads are
\* numbered in the order they are started, and no more are started than
\* there are numbers.
run_analysis_thread ==
    \E t \in DOMAIN threads :
        /\ original_image # NoImage
        /\ current_image # NoImage
        /\ threads[t].pc = "idle"
        /\ \A u \in DOMAIN threads : u < t => threads[u].pc # "idle"
        /\ threads' = [threads EXCEPT ![t] = [IdleThread EXCEPT !.pc = "copy_orig"]]
        /\ UNCHANGED <<original_image, current_image, edit_state, filter_vars,
                       current_transform_mode, crop_active, analysis_results, after_queue,
                       next_gen, ops>>
        /\ UNCHANGED anvars
        /\ UNCHANGED cropvars

\* The callback of a finished analysis, run by the event loop:
\* update_analysis_ui stores and displays the results it is given.
update_analysis_ui ==
    /\ after_queue # <<>>
    /\ Head(after_queue).kind = "results"
    /\ analysis_results' = Head(after_queue)
    /\ after_queue' = Tail(after_queue)
    /\ UNCHANGED <<original_image, current_image, edit_state, filter_vars,
                   current_transform_mode, crop_active, threads, next_gen, ops>>
    /\ UNCHANGED anvars
    /\ UNCHANGED cropvars

\* The callback of a failed analysis: messagebox.showerror("Analysis Error", ...).
show_analysis_error ==
    /\ after_queue # <<>>
    /\ Head(after_queue).kind = "error"
    /\ after_queue' = Tail(after_queue)
    /\ UNCHANGED <<original_image, current_image, edit_state, filter_vars,
                   current_transform_mode, crop_active, analysis_results, threads,
                   next_gen, ops>>
    /\ UNCHANGED anvars
    /\ UNCHANGED cropvars

\* ---- the steps of run_analysis, in a thread of its own
ThreadStep(t, now) ==
    /\ threads' = [threads EXCEPT ![t] = now]
    /\ UNCHANGED <<original_image, current_image, edit_state, filter_vars,
                   current_transform_mode, crop_active, analysis_results, next_gen, ops>>
    /\ UNCHANGED anvars
    /\ UNCHANGED cropvars

\* img_orig_small = self.original_image.copy(); img_orig_small.thumbnail(...)
run_analysis_copy_orig ==
    \E t \in DOMAIN threads :
        /\ threads[t].pc = "copy_orig"
        /\ ThreadStep(t, [threads[t] EXCEPT !.pc = "copy_edit",
                                            !.img_orig_small = Thumbnail(original_image)])
        /\ UNCHANGED after_queue

\* img_edit_small = self.current_image.copy(); img_edit_small.thumbnail(...)
run_analysis_copy_edit ==
    \E t \in DOMAIN threads :
        /\ threads[t].pc = "copy_edit"
        /\ ThreadStep(t, [threads[t] EXCEPT !.pc = "resize",
                                            !.img_edit_small = Thumbnail(current_image)])
        /\ UNCHANGED after_queue

run_analysis_resize ==
    \E t \in DOMAIN threads :
        /\ threads[t].pc = "resize"
        /\ ThreadStep(t, [threads[t] EXCEPT
                            !.pc = "analyze",
                            !.img_edit_small =
                                AlignEdited(threads[t].img_orig_small, threads[t].img_edit_small)])
        /\ UNCHANGED after_queue

\* The next analyzer call: its result is kept as the function and the images
\* it was given.
run_analysis_analyze ==
    \E t \in DOMAIN threads :
        /\ threads[t].pc = "analyze"
        /\ Len(threads[t].res) < Len(AnalyzerCalls)
        /\ ThreadStep(t, [threads[t] EXCEPT
                            !.res = Append(@, [fn |-> AnalyzerCalls[Len(@) + 1],
                                               orig |-> threads[t].img_orig_small,
                                               edited |-> threads[t].img_edit_small])])
        /\ UNCHANGED after_queue

\* The next analyzer call raises (analyze_histogram does where the default
\* font supports no text anchor, any call does where memory runs out): the
\* except clause hands the event loop a message box and nothing else.  A
\* callback is kept as its kind, the results update_analysis_ui is given
\* (delivered) and the results the thread had computed (completed).
run_analysis_except ==
    \E t \in DOMAIN threads :
        /\ threads[t].pc = "analyze"
        /\ Len(threads[t].res) < Len(AnalyzerCalls)
        /\ after_queue' = Append(after_queue, [kind |-> "error", run |-> t, delivered |-> <<>>,
                                               completed |-> threads[t].res])
        /\ ThreadStep(t, [IdleThread EXCEPT !.pc = "done"])

\* self.root.after(0, lambda: self.update_analysis_ui(...)); the thread ends.
run_analysis_post ==
    \E t \in DOMAIN threads :
        /\ threads[t].pc = "analyze"
        /\ Len(threads[t].res) = Len(AnalyzerCalls)
        /\ after_queue' = Append(after_queue, [kind |-> "results", run |-> t,
                                               delivered |-> threads[t].res,
                                               completed |-> threads[t].res])
        /\ ThreadStep(t, [IdleThread EXCEPT !.pc = "done"])

NextApp ==
    \/ open_image
    \/ reset_image
    \/ on_slider_change
    \/ on_filter_toggle
    \/ apply_transform
    \/ show_slider_panel
    \/ hide_slider_panel
    \/ on_transform_slider
    \/ toggle_crop_mode
    \/ cancel_crop
    \/ confirm_crop
    \/ run_analysis_thread
    \/ update_analysis_ui
    \/ show_analysis_error
    \/ run_analysis_copy_orig
    \/ run_analysis_copy_edit
    \/ run_analysis_resize
    \/ run_analysis_analyze
    \/ run_analysis_except
    \/ run_analysis_post

\* The application alone, its window shown; the analysis functions are not
\* called directly.
InitApp ==
    /\ img_orig = [w |-> 1, h |-> 1, px |-> <<Black>>]
    /\ img_edited = [w |-> 1, h |-> 1, px |-> <<Black>>]
    /\ NoCalls
    /\ AppAttributes
    /\ canvas_size = ShownCanvas

\* The application alone, as constructed.
InitCropMode ==
    /\ img_orig = [w |-> 1, h |-> 1, px |-> <<Black>>]
    /\ img_edited = [w |-> 1, h |-> 1, px |-> <<Black>>]
    /\ NoCalls
    /\ AppInit

SpecApp == InitApp /\ [][NextApp]_vars

\* Crop mode: the handlers that change the image's size or the canvas, and
\* the mouse handlers bound while the mode is active.
NextCropMode ==
    \/ open_image
    \/ reset_image
    \/ apply_transform
    \/ toggle_crop_mode
    \/ cancel_crop
    \/ confirm_crop
    \/ on_canvas_resize
    \/ on_crop_click
    \/ on_crop_drag
    \/ on_crop_release

SpecCropMode == InitCropMode /\ [][NextCropMode]_vars

\* Run Analysis pressed again while an analysis is running: MaxRuns threads,
\* the image opened and rotated in between.
InitRuns ==
    /\ img_orig = [w |-> 1, h |-> 1, px |-> <<Black>>]
    /\ img_edited = [w |-> 1, h |-> 1, px |-> <<Black>>]
    /\ NoCalls
    /\ original_image = NoImage
    /\ current_image = NoImage
    /\ edit_state = default_edit_state
    /\ filter_vars = [k \in FilterKeys |-> FALSE]
    /\ current_transform_mode = "None"
    /\ crop_active = FALSE
    /\ analysis_results = NoResult
    /\ after_queue = <<>>
    /\ threads = [t \in 1..MaxRuns |-> IdleThread]
    /\ next_gen = 0
    /\ ops = 0
    /\ crop_box = [kind |-> "None"]
    /\ crop_scale = [kind |-> "None"]
    /\ canvas_bindings = "default"
    /\ crop_buttons_frame = FALSE
    /\ cropped = [kind |-> "None"]
    /\ canvas_size = ShownCanvas

NextRuns ==
    \/ open_image
    \/ apply_transform
    \/ run_analysis_thread
    \/ update_analysis_ui
    \/ show_analysis_error
    \/ run_analysis_copy_orig
    \/ run_analysis_copy_edit
    \/ run_analysis_resize
    \/ run_analysis_analyze
    \/ run_analysis_except
    \/ run_analysis_post

SpecRuns == InitRuns /\ [][NextRuns]_vars

\* ---- a CropBox on its own
\* The image areas a box is made for, as (x, y, width, height) on the canvas;
\* the last one is narrower than min_size.
CropImageBounds == {<<5, 5, 30, 29>>, <<5, 5, 12, 12>>}

\* The pointer's coordinates: inside and outside the image area.
Pointers == {(k - 1) * PointerStep : k \in 0..MaxPointer}

CropStep(box) ==
    /\ crop_box' = box
    /\ UNCHANGED anvars
    /\ UNCHANGED editvars
    /\ UNCHANGED modevars

start_drag ==
    \E x \in Pointers, y \in Pointers, handle \in Handles :
        CropStep(StartDrag(crop_box, x, y, handle))

update_drag ==
    \E x \in Pointers, y \in Pointers : CropStep(UpdateDrag(crop_box, x, y))

end_drag == CropStep(EndDrag(crop_box))

\* A CropBox on its own, just constructed.
InitCrop ==
    /\ img_orig = [w |-> 1, h |-> 1, px |-> <<Black>>]
    /\ img_edited = [w |-> 1, h |-> 1, px |-> <<Black>>]
    /\ NoCalls
    /\ original_image = NoImage
    /\ current_image = NoImage
    /\ edit_state = default_edit_state
    /\ filter_vars = [k \in FilterKeys |-> FALSE]
    /\ current_transform_mode = "None"
    /\ crop_active = TRUE
    /\ analysis_results = NoResult
    /\ after_queue = <<>>
    /\ threads = [t \in Threads |-> IdleThread]
    /\ next_gen = 0
    /\ ops = 0
    /\ \E image_bounds \in CropImageBounds : crop_box = CropBox(image_bounds)
    /\ canvas_size = <<40, 40>>
    /\ crop_scale = [kind |-> "scale", num |-> 1, den |-> 1]
    /\ canvas_bindings = "crop"
    /\ crop_buttons_frame = TRUE
    /\ cropped = [kind |-> "None"]

NextCrop ==
    \/ start_drag
    \/ update_drag
    \/ end_drag

SpecCrop == InitCrop /\ [][NextCrop]_vars

\* ------------------------------------------------------------------ claims
SameRaster == img_orig = img_edited

SameSize == Size(img_orig) = Size(img_edited)

Solid(img) == \A i \in 1..NumPixels(img) : img.px[i] = img.px[1]

AllPixels(img, colour) == \A i \in 1..NumPixels(img) : img.px[i] = colour

RECURSIVE FcnSumOver(_, _)
FcnSumOver(f, S) ==
    IF S = {} THEN 0
    ELSE LET x == CHOOSE x \in S : TRUE IN f[x] + FcnSumOver(f, S \ {x})

\* The sum of the values of a function with a finite domain.
FcnSum(f) == FcnSumOver(f, DOMAIN f)

\* Two ratios are the same number.
RatioEq(a, b) == a.num * b.den = b.num * a.den

\* C1: for any raster R, analyze_metrics(R, R) returns mse = 0, psnr = +infinity
\* and ssim = 1.0.
C1_SelfMetrics ==
    (called = "analyze_metrics" /\ SameRaster) =>
        /\ result.kind = "metrics"
        /\ IsZero(result.mse)
        /\ result.psnr = Inf
        /\ SsimIsOne(result.ssim)

\* A 2x2 raster that is not a solid colour was compared with itself.
C1_Witness ==
    /\ called = "analyze_metrics"
    /\ SameRaster
    /\ img_orig.w = 2 /\ img_orig.h = 2
    /\ ~Solid(img_orig)
    /\ result.kind = "metrics"

\* C2 as stated: for any raster R, a solid colour included, analyze_edges(R, R)
\* returns preservation_score = 1.0.
C2_Original ==
    (called = "analyze_edges" /\ SameRaster) =>
        /\ result.kind = "edges"
        /\ CorrIsOne(result.preservation_score)

\* C2 as amended: analyze_edges(R, R) returns preservation_score = 1.0 for every
\* raster R whose normalized Sobel magnitude field is not constant, and 0.0 for
\* every R whose field is constant (a solid colour among them).
C2_SelfPreservation ==
    (called = "analyze_edges" /\ SameRaster) =>
        /\ result.kind = "edges"
        /\ IF VarNum(sobel_edge_detection(img_orig).mag_norm.a) = 0
           THEN CorrIsZero(result.preservation_score)
           ELSE CorrIsOne(result.preservation_score)

\* A raster with a non-constant magnitude field was compared with itself.
C2_Witness ==
    /\ called = "analyze_edges"
    /\ SameRaster
    /\ result.kind = "edges"
    /\ VarNum(sobel_edge_detection(img_orig).mag_norm.a) > 0
    /\ CorrIsOne(result.preservation_score)

\* C3: calculate_edge_preservation returns exactly 0.0 whenever the original or
\* the edited magnitude field has zero standard deviation, and for no pair of
\* equal-sized fields does it return NaN or raise.
C3_PreservationDefined ==
    called = "calculate_edge_preservation" =>
        /\ (VarNum(sobel_edge_detection(img_orig).mag_norm.a) = 0
              \/ VarNum(sobel_edge_detection(img_edited).mag_norm.a) = 0)
             => result = Corr(0, 1, 1)
        /\ SameSize => (~IsError(result) /\ ~CorrIsNaN(result))

\* The original has texture, the edited image of the same size has none.
C3_Witness ==
    /\ called = "calculate_edge_preservation"
    /\ SameSize
    /\ VarNum(sobel_edge_detection(img_orig).mag_norm.a) > 0
    /\ VarNum(sobel_edge_detection(img_edited).mag_norm.a) = 0
    /\ result = Corr(0, 1, 1)

\* C4: calculate_snr returns +infinity when the standard deviation is 0 and
\* calculate_psnr returns +infinity exactly when the MSE is 0; neither divides
\* by zero nor takes the logarithm of a number <= 0, and on equal-sized rasters
\* neither raises at all.
C4_RatioSentinels ==
    /\ called = "calculate_snr" =>
         /\ ~IsError(result)
         /\ VarNum(ChannelValues(img_orig)) = 0 => result = Inf
    /\ called = "calculate_psnr" =>
         /\ IsError(result) => (result = Raised("ValueError") /\ ~SameSize)
         /\ ~IsError(result) => (result = Inf <=> IsZero(calculate_mse(img_orig, img_edited)))

\* calculate_snr was given an all-black raster: mean 0 and standard deviation 0.
C4_Witness ==
    /\ called = "calculate_snr"
    /\ AllPixels(img_orig, Black)
    /\ NumPixels(img_orig) > 1
    /\ result = Inf

\* C5: for any raster R, analyze_noise(R, R) returns noise_delta = 0 with an
\* all-black difference map, and analyze_histogram(R, R) returns
\* histogram_delta_score = 0.0, brightness_delta = 0 and contrast_delta = 0.
C5_SelfNoiseHistogram ==
    /\ (called = "analyze_noise" /\ SameRaster) =>
         /\ result.kind = "noise"
         /\ IsZero(result.noise_delta)
         /\ Size(result.difference_map) = Size(img_orig)
         /\ AllPixels(result.difference_map, Black)
    /\ (called = "analyze_histogram" /\ SameRaster) =>
         /\ result.kind = "histogram"
         /\ IsZero(result.histogram_delta_score)
         /\ IsZero(result.brightness_delta)
         /\ IsZero(result.contrast_delta)

\* A raster with non-zero local variance was compared with itself.
C5_Witness ==
    /\ called = "analyze_noise"
    /\ SameRaster
    /\ result.kind = "noise"
    /\ result.noise_original.num > 0

\* Every pixel of img repeated k times along its row.
Replicate(img, k) ==
    [w |-> img.w * k, h |-> img.h,
     px |-> [i \in 1..(img.w * k * img.h) |->
               Pixel(img, ((i - 1) % (img.w * k)) \div k, (i - 1) \div (img.w * k))]]

RECURSIVE OverlapOver(_, _, _, _)
OverlapOver(S, a, b, c) ==
    IF S = {} THEN 0
    ELSE LET x == CHOOSE x \in S : TRUE
         IN  Min2(HistCount(a, c, x), HistCount(b, c, x)) + OverlapOver(S \ {x}, a, b, c)

\* The sum over the 3 channels and the 256 bins of |hist_a - hist_b| for two
\* images of n pixels each: in every channel the two histograms hold n pixels,
\* so the sum of |x - y| over the bins is 2 * n - 2 * (sum of min(x, y)), and
\* min(x, y) is 0 outside the bins both images occupy.
HistL1(a, b) ==
    SeqSum([c \in 1..3 |->
        2 * NumPixels(a) - 2 * OverlapOver(Occupied(a, c) \cap Occupied(b, c), a, b, c)])

\* C6: for two equal-sized images histogram_delta_score is
\* 100 * (sum over 3 channels and 256 bins of |hist_original - hist_edited|)
\* / (3 * pixel_count); replicating every pixel of both images k times leaves it
\* unchanged; solid red against solid blue gives 400/3 at every size.
C6_HistogramDeltaScore ==
    (called = "analyze_histogram" /\ SameSize) =>
        /\ result.kind = "histogram"
        /\ RatioEq(result.histogram_delta_score,
                   Ratio(100 * HistL1(img_orig, img_edited), 3 * NumPixels(img_orig)))
        /\ \A k \in 2..MaxRep :
             RatioEq(result.histogram_delta_score,
                     histogram_delta_score(Replicate(img_orig, k), Replicate(img_edited, k)))
        /\ (AllPixels(img_orig, Red) /\ AllPixels(img_edited, Blue)) =>
             RatioEq(result.histogram_delta_score, Ratio(400, 3))

\* Solid red was compared with solid blue on 4 pixels.
C6_Witness ==
    /\ called = "analyze_histogram"
    /\ SameSize
    /\ NumPixels(img_orig) = 4
    /\ AllPixels(img_orig, Red)
    /\ AllPixels(img_edited, Blue)
    /\ result.kind = "histogram"

\* C7: normalize_array returns values in [0, 255] (the value before the cast
\* to uint8 lies in that range, so the cast truncates and never wraps); a
\* constant array gives all zeros; in a non-constant array the minimum maps to
\* 0 and the maximum to 255.
C7_NormalizeRange ==
    called = "normalize_array" =>
        LET arr == result.arg
            out == result.out
            lo == SeqMin(arr.a)
            hi == SeqMax(arr.a)
        IN  /\ out.w = arr.w /\ out.h = arr.h /\ Len(out.a) = Len(arr.a)
            /\ \A i \in 1..Len(out.a) : out.a[i] \in 0..255
            /\ hi = lo => \A i \in 1..Len(out.a) : out.a[i] = 0
            /\ hi # lo =>
                 \A i \in 1..Len(out.a) :
                    /\ out.a[i] * (hi - lo) <= (arr.a[i] - lo) * 255
                    /\ (arr.a[i] - lo) * 255 < (out.a[i] + 1) * (hi - lo)
                    /\ arr.a[i] = lo => out.a[i] = 0
                    /\ arr.a[i] = hi => out.a[i] = 255

\* A field with a non-zero minimum and at least three levels was normalized.
C7_Witness ==
    /\ called = "normalize_array"
    /\ SeqMin(result.arg.a) # 0
    /\ \E i \in 1..Len(result.out.a) : result.out.a[i] \in 1..254

\* C8: analyze_metrics never fails on an edited image of another size: mse,
\* psnr and ssim are computed over the original and an edited image resized to
\* the original's size.  The other analyzers use the edited image at the size
\* given: its edge image and noise map have its size, its histogram counts its
\* pixels, its sharpness is that of the image as given.
C8_OnlyMetricsResizes ==
    /\ called = "analyze_metrics" =>
         /\ result.kind = "metrics"
         /\ result.compared = <<Size(img_orig), Size(img_orig)>>
    /\ (called = "analyze_edges" /\ result.kind = "edges") =>
         <<result.edited_edge.w, result.edited_edge.h>> = Size(img_edited)
    /\ (called = "analyze_noise" /\ result.kind = "noise") =>
         <<result.edited_noise_map.w, result.edited_noise_map.h>> = Size(img_edited)
    /\ called = "analyze_histogram" =>
         \A c \in 1..3 :
            FcnSum(result.hist_edited[c]) = NumPixels(img_edited)
    /\ called = "analyze_sharpness" =>
         result.sharpness_edited = calculate_sharpness(img_edited)

\* analyze_metrics was given an edited image of another size.
C8_Witness ==
    /\ called = "analyze_metrics"
    /\ ~SameSize
    /\ result.kind = "metrics"

\* The threads of run_analysis that have reached the analyzer calls.
Analyzing == {t \in Threads : threads[t].pc = "analyze"}

\* C9: every analyzer call made by run_analysis receives two images of
\* identical width and height, whatever the original and the edited image are.
C9_AnalyzersGetEqualSizes ==
    \A t \in Analyzing :
        /\ Size(threads[t].img_orig_small) = Size(threads[t].img_edit_small)
        /\ threads[t].img_orig_small.w <= ana_w /\ threads[t].img_orig_small.h <= ana_h
        /\ \A i \in 1..Len(threads[t].res) :
              Size(threads[t].res[i].orig) = Size(threads[t].res[i].edited)

\* The edited image was rotated by a quarter turn, so its thumbnail had the
\* sides of the original's swapped, and the analyzers have run on it.
C9_Witness ==
    \E t \in Analyzing :
        /\ Len(threads[t].res) = Len(AnalyzerCalls)
        /\ threads[t].img_edit_small.edits["rotate"] = 90
        /\ threads[t].img_orig_small.w # threads[t].img_orig_small.h
        /\ threads[t].img_edit_small.gen = threads[t].img_orig_small.gen

\* C10: all analyzers of one run operate on the same two snapshots, and that
\* pair is one (original_image, current_image) pair that existed together in
\* the application: the edited snapshot was computed from the image the
\* original snapshot was taken of.
C10_ConsistentSnapshots ==
    \A t \in Analyzing :
        /\ threads[t].img_edit_small.gen = threads[t].img_orig_small.gen
        /\ \A i \in 1..Len(threads[t].res) :
              /\ threads[t].res[i].orig = threads[t].img_orig_small
              /\ threads[t].res[i].edited = threads[t].img_edit_small

\* C11: if an analyzer raises during run_analysis, the results of the analyzers
\* that had already completed are still delivered to update_analysis_ui: every
\* callback handed to the event loop delivers every result the run computed.
C11_PartialResultsDelivered ==
    \A i \in 1..Len(after_queue) :
        /\ after_queue[i].completed # <<>> => after_queue[i].kind = "results"
        /\ after_queue[i].delivered = after_queue[i].completed

VerdictLines(lines) == {i \in 1..Len(lines) : "verdict" \in DOMAIN lines[i]}

\* C13: generate_summary_text emits exactly one verdict: 'softer/blurred'
\* whenever sharpness_delta < 0 (even if noise_delta > 0), otherwise
\* 'degraded (more noise)' whenever noise_delta > 0, otherwise 'improved'.
C13_VerdictPrecedence ==
    called = "generate_summary_text" =>
        /\ Cardinality(VerdictLines(result.lines)) = 1
        /\ \A i \in VerdictLines(result.lines) :
              result.lines[i].verdict =
                  IF result.sharpness_delta < 0 THEN "softer/blurred"
                  ELSE IF result.noise_delta > 0 THEN "degraded (more noise)"
                  ELSE "improved"

\* Both tests fire: more noise and less sharpness.
C13_Witness ==
    /\ called = "generate_summary_text"
    /\ result.noise_delta > 0
    /\ result.sharpness_delta < 0
    /\ \E i \in VerdictLines(result.lines) : result.lines[i].verdict = "softer/blurred"

\* The positions of a line of text in a report.
TextAt(lines, text) == {i \in 1..Len(lines) : lines[i] = Text(text)}

\* C14: the report holds '1. EXECUTIVE SUMMARY' and '4. COLOR & TONE' always,
\* '2. QUALITY METRICS' if and only if metric_data was supplied and
\* '3. SIGNAL ANALYSIS' if and only if art_data was supplied, each at most
\* once; the headers present are in increasing numeric order, and the last
\* line is 'End of Report'.
C14_ReportSections ==
    called = "generate_summary_text" =>
        LET lines == result.lines
            h1 == TextAt(lines, "1. EXECUTIVE SUMMARY")
            h2 == TextAt(lines, "2. QUALITY METRICS")
            h3 == TextAt(lines, "3. SIGNAL ANALYSIS")
            h4 == TextAt(lines, "4. COLOR & TONE")
        IN  /\ Cardinality(h1) = 1 /\ Cardinality(h4) = 1
            /\ Cardinality(h2) = (IF result.metric_data # None THEN 1 ELSE 0)
            /\ Cardinality(h3) = (IF result.art_data # None THEN 1 ELSE 0)
            /\ \A a \in h1, b \in h2 \cup h3 \cup h4 : a < b
            /\ \A a \in h2, b \in h3 \cup h4 : a < b
            /\ \A a \in h3, b \in h4 : a < b
            /\ lines[Len(lines)] = Text("End of Report")

\* A report with the metrics and without the artifacts section.
C14_Witness ==
    /\ called = "generate_summary_text"
    /\ result.metric_data # None
    /\ result.art_data = None
    /\ TextAt(result.lines, "2. QUALITY METRICS") # {}
    /\ TextAt(result.lines, "3. SIGNAL ANALYSIS") = {}

\* The mean over every row (axis "w") or column (axis "h") and every 8-pixel
\* block of |f[8j + off] - f[8j + off + 1]| along an axis of length n >= 9.
StepMean(f, axis, off) ==
    LET n == IF axis = "w" THEN f.w ELSE f.h
        m == IF axis = "w" THEN f.h ELSE f.w
        K == ((n - 9) \div 8) + 1
        V(i, j) == IF axis = "w" THEN At(f, i, j) ELSE At(f, j, i)
    IN  Ratio(SeqSum([k \in 1..(K * m) |->
                        Abs(V(8 * ((k - 1) % K) + off, (k - 1) \div K)
                              - V(8 * ((k - 1) % K) + off + 1, (k - 1) \div K))]),
              K * m)

\* C15: detect_compression_artifacts never raises and never returns nan or a
\* negative number, for every image of width and height >= 1.  Where both
\* sides are at least 9 the score is max(0, horizontal excess + vertical
\* excess), an excess being the mean step across the block boundaries
\* (pixels 8j+7 and 8j+8) less the mean step inside the blocks (pixels 8j+3 and
\* 8j+4); an image with a side below 9 has no block boundary and scores 0.
C15_CompressionScore ==
    called = "detect_compression_artifacts" =>
        LET f == GrayArray(PatternRaster(result.w, result.h, result.pattern))
            excess == FloatSum(RatioDiff(StepMean(f, "w", 7), StepMean(f, "w", 3)),
                               RatioDiff(StepMean(f, "h", 7), StepMean(f, "h", 3)))
        IN  /\ result.score.kind = "ratio"
            /\ result.score.den > 0
            /\ result.score.num >= 0
            /\ IF result.w >= 9 /\ result.h >= 9
               THEN IF excess.num > 0
                    THEN MulEq(result.score.num, excess.den, excess.num, result.score.den)
                    ELSE result.score.num = 0
               ELSE result.score.num = 0

\* An image narrower than 9 pixels and taller than 8 with blocks was scored.
C15_Witness ==
    /\ called = "detect_compression_artifacts"
    /\ result.w < 9
    /\ result.h >= 9
    /\ result.pattern = "blocks"
    /\ result.score = Ratio(0, 1)

\* A blocky image of two blocks a side scored above 0.
C15_WitnessBlocky ==
    /\ called = "detect_compression_artifacts"
    /\ result.w = 17
    /\ result.h >= 9
    /\ result.pattern = "blocks"
    /\ result.score.num > 0

\* The kernel [[1,-2,1],[-2,4,-2],[1,-2,1]], row by row.
NoiseKernel == <<1, -2, 1, -2, 4, -2, 1, -2, 1>>

\* The kernel's response at pixel (x, y) of a field whose border pixels are
\* repeated outwards.
KernelResponse(f, x, y) ==
    SeqSum([n \in 1..9 |->
              NoiseKernel[n] * At(f, Min2(Max2(x + ((n - 1) % 3) - 1, 0), f.w - 1),
                                     Min2(Max2(y + ((n - 1) \div 3) - 1, 0), f.h - 1))])

\* C16: estimate_gaussian_noise returns 0.0 for an image less than 3 pixels
\* high or wide; otherwise the standard deviation of the kernel's response over
\* the edge-padded grayscale image, divided by 6 (sigma squared is the
\* variance of the response over 36); it is 0 for a constant image.
C16_GaussianNoise ==
    called = "estimate_gaussian_noise" =>
        LET img == result.img
            f == GrayArray(img)
            N == Len(f.a)
            R == [i \in 1..N |-> KernelResponse(f, (i - 1) % f.w, (i - 1) \div f.w)]
            S == SeqSum(R)
            Q == SeqSum([i \in 1..N |-> R[i] * R[i]])
        IN  /\ result.sigma.kind = "sigma"
            /\ result.sigma.sq_den > 0
            /\ (img.h < 3 \/ img.w < 3) => result.sigma.sq_num = 0
            /\ (img.h >= 3 /\ img.w >= 3) =>
                   MulEq(result.sigma.sq_num, 36 * N * N, N * Q - S * S, result.sigma.sq_den)
            /\ (\A i \in 1..N : img.px[i] = img.px[1]) => result.sigma.sq_num = 0

\* A 3x3 image that is not constant got a noise level above 0.
C16_Witness ==
    /\ called = "estimate_gaussian_noise"
    /\ result.img.w = 3
    /\ result.img.h = 3
    /\ result.sigma.sq_num > 0

\* A 2x2 image that is not constant got 0.
C16_WitnessSmall ==
    /\ called = "estimate_gaussian_noise"
    /\ result.img.w = 2
    /\ result.img.h = 2
    /\ result.img.px[1] # result.img.px[2]
    /\ result.sigma.sq_num = 0

\* C17: ImageEditor.mirror(img) returns an image of the same size in which
\* the pixel (x, y) of the input is at (W-1-x, y).
C17_MirrorFlips ==
    called = "ImageEditor.mirror" =>
        /\ result.res.kind = "image"
        /\ result.res.img.w = result.img.w
        /\ result.res.img.h = result.img.h
        /\ \A x \in 0..(result.img.w - 1), y \in 0..(result.img.h - 1) :
              result.res.img.px[y * result.img.w + (result.img.w - 1 - x) + 1]
                 = result.img.px[y * result.img.w + x + 1]

\* floor(len * tan(angle)) for an angle already limited to [-45, 45]: tan 15
\* is 2 - sqrt(3), tan 30 is 1 / sqrt(3), and the double-precision tangent of
\* 45 degrees is 1 - 2^-53, whose product with a side below 2^53 has floor
\* len - 1.
IsFloorOfTan(g, len, angle) ==
    CASE Abs(angle) = 0 -> g = 0
      [] Abs(angle) = 15 ->
            /\ g >= 0
            /\ (2 * len - g - 1) * (2 * len - g - 1) < 3 * len * len
            /\ 3 * len * len < (2 * len - g) * (2 * len - g)
      [] Abs(angle) = 30 -> g >= 0 /\ 3 * g * g <= len * len /\ len * len < 3 * (g + 1) * (g + 1)
      [] Abs(angle) = 45 -> g = len - 1

\* C18: a horizontal skew keeps the height and makes the width
\* width + floor(|height * tan(angle)|), the angle limited to [-45, 45], so the
\* width is at most width + height, and 100x100 at 45 degrees gets a width
\* between 190 and 210; a vertical skew does the same to the height.
C18_SkewSize ==
    called = "ImageEditor.skew" =>
        LET clamped == IF result.angle > 45 THEN 45
                       ELSE IF result.angle < -45 THEN -45 ELSE result.angle
            horizontal == result.direction = "horizontal"
            kept == IF horizontal THEN result.h ELSE result.w
            grown == IF horizontal THEN result.w ELSE result.h
            keptAfter == IF horizontal THEN result.res.h ELSE result.res.w
            grownAfter == IF horizontal THEN result.res.w ELSE result.res.h
        IN  /\ keptAfter = kept
            /\ IsFloorOfTan(grownAfter - grown, kept, clamped)
            /\ grownAfter <= grown + kept
            /\ (kept = TestSide /\ grown = TestSide /\ Abs(result.angle) = 45) =>
                   (190 < grownAfter /\ grownAfter < 210)

\* The 100x100 image was skewed horizontally by 45 degrees.
C18_Witness ==
    /\ called = "ImageEditor.skew"
    /\ result.w = TestSide
    /\ result.h = TestSide
    /\ result.angle = 45
    /\ result.direction = "horizontal"
    /\ result.res.w = 199

\* An angle beyond the limit was given to a vertical skew.
C18_WitnessClamped ==
    /\ called = "ImageEditor.skew"
    /\ result.angle = 60
    /\ result.direction = "vertical"
    /\ result.h = 4
    /\ result.res.h > result.h

\* C19: the third value of sobel_edge_detection, which analyze_edges passes to
\* calculate_edge_preservation, is the raw magnitude field sqrt(Gx^2 + Gy^2),
\* and preservation_score is the correlation of the two raw fields.
C19_RawMagnitudeCorrelated ==
    (called = "analyze_edges" /\ result.kind = "edges") =>
        /\ \A i \in 1..NumPixels(img_orig) :
              sobel_edge_detection(img_orig).mag_norm.a[i] * FP = SobelMagnitude(img_orig).a[i]
        /\ \A i \in 1..NumPixels(img_edited) :
              sobel_edge_detection(img_edited).mag_norm.a[i] * FP = SobelMagnitude(img_edited).a[i]
        /\ result.preservation_score
              = calculate_edge_preservation(SobelMagnitude(img_orig), SobelMagnitude(img_edited))

\* C20: in the difference image of two images of one size, with diff the
\* edited field less the original field that analyze_edges holds: diff > 20
\* gives green = clip(diff, 0, 255) and red 0, diff < -20 gives
\* red = clip(-diff, 0, 255) and green 0, |diff| <= 20 gives black; blue is
\* always 0, no pixel has red and green, and the image has the inputs' size.
C20_EdgeDifferenceImage ==
    (called = "analyze_edges" /\ SameSize) =>
        /\ result.kind = "edges"
        /\ result.difference_map.w = img_orig.w
        /\ result.difference_map.h = img_orig.h
        /\ Len(result.difference_map.px) = NumPixels(img_edited)
        /\ \A i \in 1..NumPixels(img_orig) :
              LET diff == sobel_edge_detection(img_edited).mag_norm.a[i]
                            - sobel_edge_detection(img_orig).mag_norm.a[i]
                  px == result.difference_map.px[i]
              IN  /\ diff > 20 => (px[2] = (IF diff > 255 THEN 255 ELSE diff) /\ px[1] = 0)
                  /\ diff < -20 => (px[1] = (IF -diff > 255 THEN 255 ELSE -diff) /\ px[2] = 0)
                  /\ (diff <= 20 /\ diff >= -20) => px = <<0, 0, 0>>
                  /\ px[3] = 0
                  /\ ~(px[1] # 0 /\ px[2] # 0)

\* A difference image has a green pixel for a new edge and a red pixel for a
\* lost one.
C20_Witness ==
    /\ called = "analyze_edges"
    /\ SameSize
    /\ result.kind = "edges"
    /\ \E i \in 1..NumPixels(img_orig) :
          result.difference_map.px[i][2] > 20 /\ result.difference_map.px[i][1] = 0
    /\ \E i \in 1..NumPixels(img_orig) :
          result.difference_map.px[i][1] > 20 /\ result.difference_map.px[i][2] = 0

\* The index read for position i (from -1 to n) of an axis of length n padded
\* by reflection about its first and last elements.
Reflected(i, n) == IF n = 1 THEN 0 ELSE IF i < 0 THEN 1 ELSE IF i >= n THEN n - 2 ELSE i

\* The sum over the 3x3 neighbourhood of pixel k of (9 * value - sum of the 9
\* values)^2, which is 81 times the sum of the squared deviations from the
\* neighbourhood's mean.
Deviations81(f, k) ==
    LET x == (k - 1) % f.w
        y == (k - 1) \div f.w
        nb == [n \in 1..9 |-> At(f, Reflected(x + ((n - 1) % 3) - 1, f.w),
                                    Reflected(y + ((n - 1) \div 3) - 1, f.h))]
        S == SeqSum(nb)
    IN  SeqSum([n \in 1..9 |-> (9 * nb[n] - S) * (9 * nb[n] - S)])

\* What C21 says of everything but the divisor of the variance: the field has
\* the image's shape, mean_variance is its mean, and a constant image gives 0.
LocalVarianceShapeAndMean ==
    LET img == result.img
        lv == result.res.local_var
    IN  /\ lv.w = img.w
        /\ lv.h = img.h
        /\ Len(lv.a) = img.w * img.h
        /\ result.res.mean_var.kind = "ratio"
        /\ result.res.mean_var.den > 0
        /\ MulEq(result.res.mean_var.num, 81 * Len(lv.a), SeqSum(lv.a), result.res.mean_var.den)
        /\ (\A i \in 1..Len(lv.a) : img.px[i] = img.px[1]) => result.res.mean_var.num = 0

\* C21 (as stated): the variance of every pixel is the sample variance of its
\* reflect-padded 3x3 neighbourhood, the sum of the squared deviations over
\* 9 - 1; the field has the image's shape and mean_variance is its mean.
C21_Original ==
    called = "calculate_local_variance" =>
        /\ LocalVarianceShapeAndMean
        /\ \A k \in 1..Len(result.res.local_var.a) :
              8 * result.res.local_var.a[k] = Deviations81(GrayArray(result.img), k)

\* C21 (amended): the variance of every pixel is the population variance of
\* its reflect-padded 3x3 neighbourhood, the sum of the squared deviations
\* over 9 (np.var with ddof = 0); the field has the image's shape,
\* mean_variance is its mean, and it is 0 for a constant image.
C21_LocalVariance ==
    called = "calculate_local_variance" =>
        /\ LocalVarianceShapeAndMean
        /\ \A k \in 1..Len(result.res.local_var.a) :
              9 * result.res.local_var.a[k] = Deviations81(GrayArray(result.img), k)

\* A 3x3 image that is not constant got a mean variance above 0.
C21_Witness ==
    /\ called = "calculate_local_variance"
    /\ result.img.w = 3
    /\ result.img.h = 3
    /\ result.res.mean_var.num > 0

\* Six times the centred moving average of window 3 of channel c at bin i, the
\* window cut off at bins 0 and 255.
MovingAverage6(img, c, i) ==
    LET window == {b \in {i - 1, i, i + 1} : b >= 0 /\ b <= 255}
    IN  (6 * Cardinality({k \in 1..NumPixels(img) : img.px[k][c] \in window}))
           \div Cardinality(window)

\* The points of one plot.
PlotPoints(plot) == {plot[ch][x] : ch \in 1..3, x \in Bins}

\* C22: the three plots share y_max = 1.10 * max(peak of the smoothed
\* original, peak of the smoothed edited, peak of |smoothed edited - smoothed
\* original|), the smoothing being a centred moving average of window 3 cut
\* off at bins 0 and 255; y_max > 0, and every point of every channel of every
\* plot lies between the top margin (25) and the bottom margin (100 - 25).
C22_SharedScale ==
    called = "plot_aligned_histograms_pil" =>
        LET o == result.orig
            e == result.edited
            peak6 == SeqMax([k \in 1..768 |->
                        LET c == ((k - 1) \div 256) + 1
                            i == (k - 1) % 256
                        IN  Max2(Max2(MovingAverage6(o, c, i), MovingAverage6(e, c, i)),
                                 Abs(MovingAverage6(e, c, i) - MovingAverage6(o, c, i)))])
        IN  /\ result.res.y_max.kind = "ratio"
            /\ result.res.y_max.num > 0
            /\ result.res.y_max.den > 0
            \* y_max = (peak6 / 6) * 11 / 10
            /\ result.res.y_max.num * 60 = 11 * peak6 * result.res.y_max.den
            /\ \A pt \in PlotPoints(result.res.plot_orig) \cup PlotPoints(result.res.plot_edit)
                           \cup PlotPoints(result.res.plot_diff) :
                  pt[2] >= 25 /\ pt[2] <= 75
            \* the taller of the two histograms reaches 1 / 1.1 of the plot height
            /\ \E pt \in PlotPoints(result.res.plot_orig) \cup PlotPoints(result.res.plot_edit) :
                  pt[2] = 75 - 45

\* The edited image has the taller histogram, and the difference plot has
\* points on both sides of its axis.
C22_Witness ==
    /\ called = "plot_aligned_histograms_pil"
    /\ \A pt \in PlotPoints(result.res.plot_orig) : pt[2] > 75 - 45
    /\ \E pt \in PlotPoints(result.res.plot_edit) : pt[2] = 75 - 45
    /\ \E pt \in PlotPoints(result.res.plot_diff) : pt[2] < 50
    /\ \E pt \in PlotPoints(result.res.plot_diff) : pt[2] > 50

\* C23: a crop box that started inside the image area stays inside it after
\* any drags: img_x <= x, img_y <= y, x + width <= img_x + img_w and
\* y + height <= img_y + img_h.
C23_BoxInsideImage ==
    crop_box.kind = "CropBox" =>
        /\ crop_box.img_x <= crop_box.x
        /\ crop_box.img_y <= crop_box.y
        /\ crop_box.x + crop_box.width <= crop_box.img_x + crop_box.img_w
        /\ crop_box.y + crop_box.height <= crop_box.img_y + crop_box.img_h

\* A move with the pointer beyond the right and bottom edges of the image
\* area left the box against those edges.
C23_Witness ==
    /\ crop_box.kind = "CropBox"
    /\ crop_box.active_handle = "move"
    /\ crop_box.x + crop_box.width = crop_box.img_x + crop_box.img_w
    /\ crop_box.y + crop_box.height = crop_box.img_y + crop_box.img_h
    /\ crop_box.x # crop_box.drag_start_rect[1]
    /\ crop_box.y # crop_box.drag_start_rect[2]

\* The box a CropBox starts with on an image area is at least min_size wide
\* and high.
StartsAtLeastMinSize(b) ==
    /\ b.img_w >= b.min_size
    /\ b.img_h >= b.min_size
    /\ Int07(b.img_w) >= b.min_size
    /\ Int07(b.img_h) >= b.min_size

\* A box that started at least min_size wide and high is no narrower or
\* lower than 20.
MinimumSizeKept ==
    (crop_box.kind = "CropBox" /\ StartsAtLeastMinSize(crop_box)) =>
        /\ crop_box.min_size = 20
        /\ crop_box.width >= 20
        /\ crop_box.height >= 20

\* A step taken while the handle is 'move' leaves the width and the height
\* as they are.
MoveKeepsSize ==
    (crop_box.kind = "CropBox" /\ crop_box'.kind = "CropBox"
       /\ crop_box.active_handle = "move" /\ crop_box'.active_handle = "move")
      => (crop_box'.width = crop_box.width /\ crop_box'.height = crop_box.height)

\* C24: on an image area of at least min_size (20) a side, a box that starts
\* at least min_size wide and high never gets narrower or lower than 20,
\* whatever handle is dragged wherever; a 'move' drag leaves the width and the
\* height unchanged.
C24_MinimumSize == []MinimumSizeKept /\ [][MoveKeepsSize]_vars

\* The left handle was dragged past the right edge of the box and the box is
\* min_size wide, its right edge where it was.
C24_Witness ==
    /\ crop_box.kind = "CropBox"
    /\ StartsAtLeastMinSize(crop_box)
    /\ crop_box.active_handle = "w"
    /\ crop_box.width = 20
    /\ crop_box.drag_start_rect[3] > 20
    /\ crop_box.x + crop_box.width = crop_box.drag_start_rect[1] + crop_box.drag_start_rect[3]

\* C25: when reset_image, open_image or a successful confirm_crop completes,
\* current_image has the pixels of original_image and edit_state equals
\* default_edit_state, whatever the controls were set to before.
C25_ResetRestores ==
    [][(reset_image \/ open_image \/ confirm_crop)
         => (current_image' = original_image' /\ edit_state' = default_edit_state)]_vars

\* The rectangle last cropped lies inside the image it was cropped from.
CropInsideImage ==
    /\ 0 <= cropped.rect[1] /\ cropped.rect[1] < cropped.rect[3]
    /\ cropped.rect[3] <= cropped.width
    /\ 0 <= cropped.rect[2] /\ cropped.rect[2] < cropped.rect[4]
    /\ cropped.rect[4] <= cropped.height

\* An image coordinate, drawn by a preview that starts at canvas coordinate
\* at and shows side image pixels on shown canvas pixels, falls within 3
\* canvas pixels (the roundings of the preview and of the box) of the crop
\* box's edge, the edge cut to the preview.
UnderEdge(coord, edge, at, shown, side) ==
    LET cut == Max2(at, Min2(edge, at + shown))
    IN  Abs((at * side) + (coord * shown) - (cut * side)) <= 3 * side

\* C26: the rectangle confirm_crop crops lies inside current_image and is the
\* region of current_image under the crop box, as the image is displayed at
\* confirm time, whatever was done while crop mode was active.
C26_CropsRegionUnderBox ==
    cropped.kind = "crop" =>
        LET shown == update_preview([w |-> cropped.width, h |-> cropped.height],
                                    cropped.canvas)
        IN  /\ CropInsideImage
            /\ UnderEdge(cropped.rect[1], cropped.box[1], shown.x, shown.width, cropped.width)
            /\ UnderEdge(cropped.rect[3], cropped.box[1] + cropped.box[3],
                         shown.x, shown.width, cropped.width)
            /\ UnderEdge(cropped.rect[2], cropped.box[2], shown.y, shown.height,
                         cropped.height)
            /\ UnderEdge(cropped.rect[4], cropped.box[2] + cropped.box[4],
                         shown.y, shown.height, cropped.height)

\* C27: in crop mode a CropBox exists, the crop mouse handlers are bound and
\* the confirm and cancel buttons are shown; out of crop mode there is no
\* CropBox, the buttons are hidden and the default mouse handlers are bound.
C27_CropModeConsistent ==
    IF crop_active
    THEN crop_box.kind = "CropBox" /\ canvas_bindings = "crop" /\ crop_buttons_frame
    ELSE crop_box.kind = "None" /\ canvas_bindings = "default" /\ ~crop_buttons_frame

\* C28: with Run Analysis pressed again while an analysis is running, the
\* results displayed in the end are those of the analysis started last: the
\* callback of an analysis started earlier never replaces the results of one
\* started later by other results.
C28_LatestResultsKept ==
    [][(update_analysis_ui /\ analysis_results.kind = "results"
          /\ Head(after_queue).run < analysis_results.run)
         => analysis_results'.delivered = analysis_results.delivered]_vars

\* The order of the pipeline as the claim gives it.
FixedOrder ==
    <<"rotate", "skew_x", "skew_y", "gray", "sepia", "blur", "sharpen", "emboss",
      "vignette", "brightness", "contrast", "exposure", "highlights">>

\* The controls of an edit state that are away from their defaults.
ActiveControls(es) ==
    {k \in DOMAIN es : IF k \in FilterKeys THEN es[k]
                       ELSE IF k = "rotate" THEN es[k] % 360 # 0 ELSE es[k] # 0}

\* A sequence lists the members of a set once each, in the fixed order.
InFixedOrder(seq, S) ==
    /\ {seq[i] : i \in 1..Len(seq)} = S
    /\ \A i, j \in 1..Len(seq) :
          i < j => \E a, b \in 1..Len(FixedOrder) :
                      a < b /\ FixedOrder[a] = seq[i] /\ FixedOrder[b] = seq[j]

\* The handlers that end by running apply_pipeline.
RunsPipeline ==
    \/ on_slider_change
    \/ on_filter_toggle
    \/ apply_transform
    \/ show_slider_panel
    \/ on_transform_slider

\* C29: apply_pipeline computes current_image from a copy of original_image by
\* the steps of the active controls in the fixed order rotate, skew_x, skew_y,
\* gray, sepia, blur, sharpen, emboss, vignette, brightness, contrast,
\* exposure, highlights; the image is a function of (original_image,
\* edit_state) alone, running the pipeline again gives the same image, and
\* original_image is left as it is.
C29_PipelineFunction ==
    [][(RunsPipeline /\ original_image # NoImage) =>
          /\ original_image' = original_image
          /\ current_image'.gen = original_image.gen
          /\ InFixedOrder(current_image'.applied, ActiveControls(edit_state'))
          /\ current_image' = Pipeline(original_image, edit_state')
          /\ apply_pipeline(original_image', current_image', edit_state') = current_image']_vars

\* Two controls were changed in the order opposite to the pipeline's: a tone
\* control or filter first, the rotation after it.
C29_Witness ==
    /\ current_image # NoImage
    /\ Len(current_image.applied) = 2
    /\ current_image.applied[1] = "rotate"
    /\ current_image.applied[2] \in FilterKeys \cup ToneKeys
    /\ current_image = Pipeline(original_image, edit_state)

\* The values a report gives under a label.
ValuesAt(lines, label) ==
    {lines[i].value : i \in {j \in 1..Len(lines) :
                                "label" \in DOMAIN lines[j] /\ lines[j].label = label}}

\* C30: the quick-stat labels of generate_summary_text are decided by '> 0'
\* alone: a sharpness, noise or edge-density delta of zero reads
\* 'Decreased', 'Decreased' and 'Smoother', a positive one 'Increased',
\* 'Increased' and 'More Details'; the verdict for deltas that are all zero
\* is 'improved'; no label or verdict says 'unchanged'.
C30_QuickStatLabels ==
    called = "generate_summary_text" =>
        /\ ValuesAt(result.lines, "Sharpness")
              = {IF result.sharpness_delta > 0 THEN "Increased" ELSE "Decreased"}
        /\ ValuesAt(result.lines, "Noise")
              = {IF result.noise_delta > 0 THEN "Increased" ELSE "Decreased"}
        /\ ValuesAt(result.lines, "Edges")
              = {IF result.density_delta > 0 THEN "More Details" ELSE "Smoother"}
        /\ (result.sharpness_delta = 0 /\ result.noise_delta = 0 /\ result.density_delta = 0)
             => \A i \in VerdictLines(result.lines) : result.lines[i].verdict = "improved"
        /\ \A i \in VerdictLines(result.lines) :
              result.lines[i].verdict
                \in {"improved", "degraded (more noise)", "softer/blurred"}

\* A report for an edited image that changed nothing: every delta is zero.
C30_Witness ==
    /\ called = "generate_summary_text"
    /\ result.sharpness_delta = 0 /\ result.noise_delta = 0 /\ result.density_delta = 0
    /\ ValuesAt(result.lines, "Sharpness") = {"Decreased"}
    /\ ValuesAt(result.lines, "Noise") = {"Decreased"}
    /\ ValuesAt(result.lines, "Edges") = {"Smoother"}
    /\ \E i \in VerdictLines(result.lines) : result.lines[i].verdict = "improved"

====
